---- MODULE Spec2Model ----
(***************************************************************************)
(* Job-application tracker: the deduplication / stage-merge engine         *)
(* (src/src/deduplication.py), the disposition and application stores      *)
(* (src/src/database.py, src/src/sheets_sync.py) and the orchestration     *)
(* loop run_sync (src/src/main.py).                                        *)
(*                                                                         *)
(* Python strings are TLA+ strings; a character is a string of length 1.  *)
(***************************************************************************)
EXTENDS Integers, Sequences, FiniteSets, TLC

(***************************************************************************)
(* Python str primitives used by the code                                  *)
(***************************************************************************)
Ch(s, i) == SubSeq(s, i, i)

LowerLetters == {"a","b","c","d","e","f","g","h","i","j","k","l","m",
                 "n","o","p","q","r","s","t","u","v","w","x","y","z"}

UpperLetters == {"A","B","C","D","E","F","G","H","I","J","K","L","M",
                 "N","O","P","Q","R","S","T","U","V","W","X","Y","Z"}

Digits == {"0","1","2","3","4","5","6","7","8","9"}

ToLowerCh(c) ==
    CASE c = "A" -> "a" [] c = "B" -> "b" [] c = "C" -> "c" [] c = "D" -> "d"
      [] c = "E" -> "e" [] c = "F" -> "f" [] c = "G" -> "g" [] c = "H" -> "h"
      [] c = "I" -> "i" [] c = "J" -> "j" [] c = "K" -> "k" [] c = "L" -> "l"
      [] c = "M" -> "m" [] c = "N" -> "n" [] c = "O" -> "o" [] c = "P" -> "p"
      [] c = "Q" -> "q" [] c = "R" -> "r" [] c = "S" -> "s" [] c = "T" -> "t"
      [] c = "U" -> "u" [] c = "V" -> "v" [] c = "W" -> "w" [] c = "X" -> "x"
      [] c = "Y" -> "y" [] c = "Z" -> "z" [] OTHER -> c

ToUpperCh(c) ==
    CASE c = "a" -> "A" [] c = "b" -> "B" [] c = "c" -> "C" [] c = "d" -> "D"
      [] c = "e" -> "E" [] c = "f" -> "F" [] c = "g" -> "G" [] c = "h" -> "H"
      [] c = "i" -> "I" [] c = "j" -> "J" [] c = "k" -> "K" [] c = "l" -> "L"
      [] c = "m" -> "M" [] c = "n" -> "N" [] c = "o" -> "O" [] c = "p" -> "P"
      [] c = "q" -> "Q" [] c = "r" -> "R" [] c = "s" -> "S" [] c = "t" -> "T"
      [] c = "u" -> "U" [] c = "v" -> "V" [] c = "w" -> "W" [] c = "x" -> "X"
      [] c = "y" -> "Y" [] c = "z" -> "Z" [] OTHER -> c

IsCased(c) == c \in LowerLetters \cup UpperLetters

\* a regular-expression word character (\w)
IsWordCh(c) == c \in LowerLetters \cup UpperLetters \cup Digits \cup {"_"}

\* a regular-expression whitespace character (\s), also what str.split() and
\* str.strip() treat as whitespace
IsSpaceCh(c) == c \in {" ", "\t", "\n", "\r"}

\* str.lower()
RECURSIVE lower(_)
lower(s) == IF s = "" THEN "" ELSE ToLowerCh(Head(s)) \o lower(Tail(s))

\* str.lstrip(chars) / str.rstrip(chars) / str.strip(chars)
RECURSIVE lstrip_chars(_, _)
lstrip_chars(s, chars) ==
    IF s # "" /\ Head(s) \in chars THEN lstrip_chars(Tail(s), chars) ELSE s

RECURSIVE rstrip_chars(_, _)
rstrip_chars(s, chars) ==
    IF s # "" /\ Ch(s, Len(s)) \in chars
    THEN rstrip_chars(SubSeq(s, 1, Len(s) - 1), chars)
    ELSE s

strip_chars(s, chars) == rstrip_chars(lstrip_chars(s, chars), chars)

\* str.strip()
strip(s) == strip_chars(s, {" ", "\t", "\n", "\r"})

\* str.title(): a cased character is upper-cased when the character before
\* it is not cased, and lower-cased otherwise
RECURSIVE title_from(_, _)
title_from(s, prevCased) ==
    IF s = "" THEN ""
    ELSE LET c == Head(s)
         IN  (IF IsCased(c)
              THEN (IF prevCased THEN ToLowerCh(c) ELSE ToUpperCh(c))
              ELSE c) \o title_from(Tail(s), IsCased(c))

title(s) == title_from(s, FALSE)

\* str.split(): the maximal runs of non-whitespace characters, in order
RECURSIVE split_from(_, _)
split_from(s, word) ==
    IF s = "" THEN (IF word = "" THEN <<>> ELSE <<word>>)
    ELSE IF IsSpaceCh(Head(s))
         THEN (IF word = "" THEN <<>> ELSE <<word>>) \o split_from(Tail(s), "")
         ELSE split_from(Tail(s), word \o Head(s))

split(s) == split_from(s, "")

\* sep.join(words)
RECURSIVE join(_, _)
join(sep, words) ==
    IF words = <<>> THEN ""
    ELSE IF Len(words) = 1 THEN words[1]
    ELSE words[1] \o sep \o join(sep, Tail(words))

\* the Python operator "sub in s" on strings
Contains(sub, s) ==
    \E i \in 1..(Len(s) - Len(sub) + 1) : SubSeq(s, i, i + Len(sub) - 1) = sub

\* re.sub(r"\s+", " ", s)
RECURSIVE collapse_ws(_, _)
collapse_ws(s, inRun) ==
    IF s = "" THEN ""
    ELSE IF IsSpaceCh(Head(s))
         THEN (IF inRun THEN "" ELSE " ") \o collapse_ws(Tail(s), TRUE)
         ELSE Head(s) \o collapse_ws(Tail(s), FALSE)

(***************************************************************************)
(* Bounds of the model and the inputs the environment supplies             *)
(***************************************************************************)
\* number of messages in the mailbox
NumEmails == 3

\* number of run_sync invocations explored
MaxRuns == 2

\* largest value of the wall clock (seconds) stamped into last_updated
MaxClock == 1

\* calls left in today's budget in the initial state
QuotaSlack == 2

GEMINI_DAILY_QUOTA_LIMIT == 1500

\* subject / sender / date of the messages Gmail returns; message i of the
\* mailbox has the content MailTemplates[((i - 1) % Len(MailTemplates)) + 1]
MailTemplates ==
    << [subject |-> "Thank you for applying to Senior Backend Engineer at Acme",
        from |-> "careers@acme.com", date |-> "2024-03-01"],
       [subject |-> "Your application was received",
        from |-> "Greenhouse <no-reply@us.greenhouse.io>", date |-> "2024-03-02"],
       [subject |-> "5 new jobs matching your search",
        from |-> "jobs-noreply@linkedin.com", date |-> "2024-03-04"] >>

EmailIds == 1..NumEmails

Mailbox ==
    [i \in EmailIds |->
        LET t == MailTemplates[((i - 1) % Len(MailTemplates)) + 1]
        IN  [id |-> i, subject |-> t.subject, from |-> t.from, date |-> t.date]]

\* the dicts _parse_ai_response can return for the messages of the mailbox
ParsedRecords ==
    { [company |-> "Google", role |-> "Software Engineer Intern",
       stage |-> "Interview Scheduled", date |-> "2024-02-20",
       notes |-> "Interview set", is_internship |-> TRUE],
      [company |-> "google inc", role |-> "Software Engineering Intern",
       stage |-> "In Review", date |-> "",
       notes |-> "Under review", is_internship |-> TRUE],
      [company |-> "google inc", role |-> "Software Engineering Intern",
       stage |-> "Offer", date |-> "2024-02-25",
       notes |-> "", is_internship |-> TRUE],
      [company |-> "Google", role |-> "Software Engineer Intern",
       stage |-> "Rejected", date |-> "2024-02-26",
       notes |-> "Not moving forward", is_internship |-> TRUE],
      [company |-> "Google", role |-> "Software Engineer Intern",
       stage |-> "Withdrawn", date |-> "",
       notes |-> ";withdrew", is_internship |-> TRUE],
      [company |-> "Stripe", role |-> "Data Platform Infrastructure Engineer",
       stage |-> "Applied", date |-> "2024-02-21",
       notes |-> "Received", is_internship |-> FALSE] }

(***************************************************************************)
(* deduplication.py                                                        *)
(***************************************************************************)
\* Each LEGAL_SUFFIXES pattern is \s+ <lit> \b, or \s+ <lit> \.? \b when
\* dot is TRUE; all are applied with re.IGNORECASE.
LEGAL_SUFFIXES ==
    << [lit |-> "LLC",          dot |-> FALSE],
       [lit |-> "Inc",          dot |-> TRUE],
       [lit |-> "Corp",         dot |-> TRUE],
       [lit |-> "Ltd",          dot |-> TRUE],
       [lit |-> "Co",           dot |-> TRUE],
       [lit |-> "L.L.C",        dot |-> TRUE],
       [lit |-> "Incorporated", dot |-> FALSE],
       [lit |-> "Corporation",  dot |-> FALSE],
       [lit |-> "Limited",      dot |-> FALSE],
       [lit |-> "PLC",          dot |-> FALSE],
       [lit |-> "LLP",          dot |-> FALSE],
       [lit |-> "LP",           dot |-> FALSE] >>

COMPANY_ALIASES ==
    << <<"google", "Google">>,
       <<"meta platforms", "Meta">>,
       <<"meta", "Meta">>,
       <<"amazon.com services", "Amazon">>,
       <<"amazon", "Amazon">>,
       <<"amazon web services", "AWS">>,
       <<"aws", "AWS">>,
       <<"microsoft corporation", "Microsoft">>,
       <<"microsoft", "Microsoft">>,
       <<"apple inc", "Apple">>,
       <<"apple", "Apple">>,
       <<"alphabet", "Google">>,
       <<"jpmorgan chase", "JPMorgan">>,
       <<"j.p. morgan", "JPMorgan">>,
       <<"jpmorgan", "JPMorgan">>,
       <<"goldman sachs & co", "Goldman Sachs">>,
       <<"goldman sachs", "Goldman Sachs">>,
       <<"international business machines", "IBM">>,
       <<"ibm", "IBM">> >>

ROLE_NOISE ==
    {"intern", "internship", "co-op", "coop", "full-time", "part-time",
     "fulltime", "parttime", "remote", "hybrid", "contract", "contractor",
     "i", "ii", "iii", "sr", "jr", "senior", "junior", "associate", "lead",
     "staff", "principal"}

\* the first member of each group is the canonical one
ROLE_EQUIVALENTS ==
    << <<"software engineer", "software developer", "swe", "software engineering">>,
       <<"software engineering intern", "software developer intern", "swe intern">>,
       <<"product management intern", "product manager intern", "pm intern">>,
       <<"data science intern", "data scientist intern">>,
       <<"machine learning", "ml">>,
       <<"artificial intelligence", "ai">>,
       <<"full stack", "fullstack", "full-stack">>,
       <<"front end", "frontend", "front-end">>,
       <<"back end", "backend", "back-end">> >>

Stages ==
    <<"Applied", "In Review", "OA/Assessment", "Phone Screen",
      "Interview Scheduled", "Interviewed", "Offer", "Rejected", "Withdrawn">>

StageSet == {Stages[i] : i \in 1..Len(Stages)}

\* STAGE_PRIORITY.get(stage, 0)
STAGE_PRIORITY(stage) ==
    IF \E i \in 1..Len(Stages) : Stages[i] = stage
    THEN CHOOSE i \in 1..Len(Stages) : Stages[i] = stage
    ELSE 0

\* \b at the position between s[p-1] and s[p]
WordBoundary(s, p) ==
    LET before == p - 1 >= 1 /\ p - 1 <= Len(s) /\ IsWordCh(Ch(s, p - 1))
        after  == p >= 1 /\ p <= Len(s) /\ IsWordCh(Ch(s, p))
    IN  before # after

\* index of the first non-whitespace character at or after i (Len(s)+1 if none)
RECURSIVE SkipSpaces(_, _)
SkipSpaces(s, i) ==
    IF i <= Len(s) /\ IsSpaceCh(Ch(s, i)) THEN SkipSpaces(s, i + 1) ELSE i

\* re.match of one suffix pattern at index i of s: the index just after the
\* match, or 0 when the pattern does not match there
SuffixMatchEnd(s, i, pat) ==
    IF ~(i <= Len(s) /\ IsSpaceCh(Ch(s, i))) THEN 0
    ELSE LET j == SkipSpaces(s, i)
             k == j + Len(pat.lit)
         IN  IF k - 1 > Len(s) THEN 0
             ELSE IF lower(SubSeq(s, j, k - 1)) # lower(pat.lit) THEN 0
             ELSE IF pat.dot /\ k <= Len(s) /\ Ch(s, k) = "." /\ WordBoundary(s, k + 1)
                  THEN k + 1
             ELSE IF WordBoundary(s, k) THEN k
             ELSE 0

\* re.sub(pattern, "", s, flags=re.IGNORECASE), scanning from index i
RECURSIVE re_sub_suffix(_, _, _)
re_sub_suffix(s, i, pat) ==
    IF i > Len(s) THEN ""
    ELSE LET e == SuffixMatchEnd(s, i, pat)
         IN  IF e > 0 THEN re_sub_suffix(s, e, pat)
             ELSE Ch(s, i) \o re_sub_suffix(s, i + 1, pat)

RECURSIVE strip_suffixes(_, _)
strip_suffixes(s, n) ==
    IF n > Len(LEGAL_SUFFIXES) THEN s
    ELSE strip_suffixes(re_sub_suffix(s, 1, LEGAL_SUFFIXES[n]), n + 1)

normalize_company(raw) ==
    LET s   == strip(collapse_ws(strip_suffixes(strip(raw), 1), FALSE))
        key == lower(s)
    IN  IF \E n \in 1..Len(COMPANY_ALIASES) : COMPANY_ALIASES[n][1] = key
        THEN COMPANY_ALIASES[CHOOSE n \in 1..Len(COMPANY_ALIASES) :
                                 COMPANY_ALIASES[n][1] = key][2]
        ELSE IF s # "" THEN title(s) ELSE ""

normalize_company_for_match(raw) == strip(lower(normalize_company(raw)))

\* the inner loop over equiv_group[1:]: the string becomes the canonical
\* member when some variant contains it or is contained in it
ApplyEquivGroup(s, group) ==
    IF \E v \in 2..Len(group) : Contains(group[v], s) \/ Contains(s, group[v])
    THEN group[1]
    ELSE s

RECURSIVE ApplyEquivalents(_, _)
ApplyEquivalents(s, g) ==
    IF g > Len(ROLE_EQUIVALENTS) THEN s
    ELSE ApplyEquivalents(ApplyEquivGroup(s, ROLE_EQUIVALENTS[g]), g + 1)

normalize_role_for_match(raw) ==
    LET words == SelectSeq(split(strip(lower(raw))), LAMBDA w : w \notin ROLE_NOISE)
    IN  ApplyEquivalents(join(" ", words), 1)

SeqToSet(q) == {q[i] : i \in 1..Len(q)}

\* the quotient intersection / union as the pair <<numerator, denominator>>;
\* 0.0 is <<0, 1>>
role_token_overlap(a, b) ==
    LET tokens_a == SeqToSet(split(normalize_role_for_match(a)))
        tokens_b == SeqToSet(split(normalize_role_for_match(b)))
    IN  IF tokens_a = {} \/ tokens_b = {} THEN <<0, 1>>
        ELSE <<Cardinality(tokens_a \cap tokens_b), Cardinality(tokens_a \cup tokens_b)>>

\* overlap >= 0.75
OverlapAtLeastThreshold(ov) == 4 * ov[1] >= 3 * ov[2]

\* variant: the priority comparison alone
should_upgrade_stage_priority_only(current, incoming) ==
    STAGE_PRIORITY(incoming) > STAGE_PRIORITY(current)

\* variant: >= in place of >
should_upgrade_stage_not_strict(current, incoming) ==
    IF incoming \in {"Rejected", "Withdrawn"} THEN TRUE
    ELSE IF current = "Offer" /\ incoming # "Withdrawn" THEN FALSE
    ELSE STAGE_PRIORITY(incoming) >= STAGE_PRIORITY(current)

should_upgrade_stage(current, incoming) ==
    LET curr_pri == STAGE_PRIORITY(current)
        inc_pri  == STAGE_PRIORITY(incoming)
    IN  IF incoming \in {"Rejected", "Withdrawn"} THEN TRUE
        ELSE IF current = "Offer" /\ incoming # "Withdrawn" THEN FALSE
        ELSE inc_pri > curr_pri

\* variant: the role strings compared as they are
MatchesRawRole(company, role, app_company, app_role) ==
    /\ normalize_company_for_match(company) = normalize_company_for_match(app_company)
    /\ role = app_role

\* lines 168-183: the test find_matching_application applies to one app
Matches(company, role, app_company, app_role) ==
    /\ normalize_company_for_match(company) = normalize_company_for_match(app_company)
    /\ \/ normalize_role_for_match(role) = normalize_role_for_match(app_role)
       \/ OverlapAtLeastThreshold(role_token_overlap(role, app_role))

\* Matches, tabulated once for the company and role strings of the model
StoredCompanies == {normalize_company(p.company) : p \in ParsedRecords}

RoleStrings == {p.role : p \in ParsedRecords}

MatchKeys ==
    {<<c, r, ac, ar>> : c \in StoredCompanies, r \in RoleStrings,
                       ac \in StoredCompanies, ar \in RoleStrings}

MatchTable == {k \in MatchKeys : Matches(k[1], k[2], k[3], k[4])}

AppMatches(company, role, app) ==
    IF <<company, role, app.company, app.role>> \in MatchKeys
    THEN <<company, role, app.company, app.role>> \in MatchTable
    ELSE Matches(company, role, app.company, app.role)

\* variant: the last application that matches is returned
find_last_matching_application(company, role, existing_apps) ==
    IF \E i \in 1..Len(existing_apps) : AppMatches(company, role, existing_apps[i])
    THEN CHOOSE i \in 1..Len(existing_apps) :
            /\ AppMatches(company, role, existing_apps[i])
            /\ \A j \in (i + 1)..Len(existing_apps) :
                  ~AppMatches(company, role, existing_apps[j])
    ELSE 0

\* the index in existing_apps of the application returned, 0 for None
find_matching_application(company, role, existing_apps) ==
    IF \E i \in 1..Len(existing_apps) : AppMatches(company, role, existing_apps[i])
    THEN CHOOSE i \in 1..Len(existing_apps) :
            /\ AppMatches(company, role, existing_apps[i])
            /\ \A j \in 1..(i - 1) : ~AppMatches(company, role, existing_apps[j])
    ELSE 0

(***************************************************************************)
(* pre_filter.py                                                           *)
(***************************************************************************)
\* Python None, where the code returns Optional[str] or Optional[dict]
None == "None"

HARD_REJECT_SUBJECTS ==
    <<"job alert", "jobs you might like", "recommended jobs", "new jobs matching",
      "people are applying", "jobs near you", "top job picks", "weekly digest",
      "newsletter", "salary insights", "viewed your profile", "connection request",
      "grow your network", "who's hiring", "jobs based on your profile",
      "open to work", "x people applied", "see who's hiring">>

MUST_PASS_SUBJECTS ==
    <<"application", "applied", "interview", "offer", "internship", "position",
      "role", "hiring", "candidate", "recruiting", "assessment", "screening",
      "unfortunately", "next steps", "moving forward", "thank you for applying",
      "we received", "application update", "your application",
      "application confirmation", "job offer", "pleased to", "decision",
      "consideration", "move forward", "background check", "onboarding">>

ATS_DOMAINS ==
    <<"greenhouse.io", "lever.co", "workday.com", "myworkdayjobs.com",
      "ashbyhq.com", "smartrecruiters.com", "jobvite.com", "icims.com",
      "taleo.net", "successfactors.com", "brassring.com", "jazz.co",
      "recruitee.com", "bamboohr.com", "rippling.com", "dover.com">>

PERSONAL_DOMAINS ==
    {"gmail.com", "yahoo.com", "hotmail.com", "outlook.com", "icloud.com",
     "aol.com", "protonmail.com", "live.com"}

JOB_BOARD_BLAST_RULES ==
    << [domain |-> "linkedin.com",
        subjects |-> <<"alert", "recommendation", "digest", "jobs", "people",
                       "network", "profile">>],
       [domain |-> "indeed.com", subjects |-> <<"alert", "matches", "digest">>],
       [domain |-> "glassdoor.com", subjects |-> <<"alert", "matches">>] >>

ALWAYS_REJECT_DOMAINS == {"ziprecruiter.com", "dice.com", "monster.com"}

\* a character of the class [\w.-]
IsDomainCh(c) == IsWordCh(c) \/ c \in {".", "-"}

RECURSIVE DomainRun(_, _)
DomainRun(s, i) ==
    IF i <= Len(s) /\ IsDomainCh(Ch(s, i)) THEN Ch(s, i) \o DomainRun(s, i + 1) ELSE ""

\* re.search(r"@([\w.-]+)", email_addr): the first "@" that is followed by a
\* domain character, and the longest run of domain characters after it
extract_domain(email_addr) ==
    LET starts == {i \in 1..Len(email_addr) :
                      /\ Ch(email_addr, i) = "@"
                      /\ i + 1 <= Len(email_addr)
                      /\ IsDomainCh(Ch(email_addr, i + 1))}
    IN  IF starts = {} THEN ""
        ELSE LET first == CHOOSE i \in starts : \A j \in starts : i <= j
             IN  lower(DomainRun(email_addr, first + 1))

\* the first element of seq satisfying Test, as an index (0 when none does)
FirstIndex(seq, Test(_)) ==
    IF \E i \in 1..Len(seq) : Test(seq[i])
    THEN CHOOSE i \in 1..Len(seq) : Test(seq[i]) /\ \A j \in 1..(i - 1) : ~Test(seq[j])
    ELSE 0

\* variant: only the keyword and ATS test at the end is made
pre_filter_keywords_only(email) ==
    LET subject == lower(email.subject)
        domain  == extract_domain(lower(email.from))
    IN  IF \/ \E i \in 1..Len(MUST_PASS_SUBJECTS) : Contains(MUST_PASS_SUBJECTS[i], subject)
           \/ \E i \in 1..Len(ATS_DOMAINS) : Contains(ATS_DOMAINS[i], domain)
        THEN None
        ELSE "subject does not contain application-related keywords and sender is not known ATS"

\* None for PASS, otherwise the rejection reason
pre_filter(email) ==
    LET subject   == lower(email.subject)
        from_addr == lower(email.from)
        domain    == extract_domain(from_addr)
        InSubject(phrase) == Contains(phrase, subject)
        hard      == FirstIndex(HARD_REJECT_SUBJECTS, InSubject)
        BlastHit(rule) == Contains(rule.domain, domain)
                          /\ FirstIndex(rule.subjects, InSubject) # 0
        blast     == FirstIndex(JOB_BOARD_BLAST_RULES, BlastHit)
        subject_passes == FirstIndex(MUST_PASS_SUBJECTS, InSubject) # 0
        IsAts(ats) == Contains(ats, domain)
        domain_is_ats  == FirstIndex(ATS_DOMAINS, IsAts) # 0
    IN  IF hard # 0
        THEN "subject contains '" \o HARD_REJECT_SUBJECTS[hard] \o "'"
        ELSE IF domain \in PERSONAL_DOMAINS
        THEN "sender domain is personal: " \o domain
        ELSE IF domain \in ALWAYS_REJECT_DOMAINS
        THEN "sender is job board blast: " \o domain
        ELSE IF blast # 0
        THEN "from " \o domain \o " and subject contains '"
             \o JOB_BOARD_BLAST_RULES[blast].subjects[
                    FirstIndex(JOB_BOARD_BLAST_RULES[blast].subjects, InSubject)]
             \o "' (job board blast)"
        ELSE IF ~subject_passes /\ ~domain_is_ats
        THEN "subject does not contain application-related keywords and sender is not known ATS"
        ELSE None

(***************************************************************************)
(* State                                                                   *)
(***************************************************************************)
VARIABLES
    applications,        \* table applications, in rowid order
    next_id,             \* the next AUTOINCREMENT id of table applications
    processed_emails,    \* table processed_emails, a set of rows
    call_count,          \* gemini_daily_usage.call_count of today
    sheet_apps,          \* rows of the Applications tab, from row 2 on
    sheet_processed,     \* ids in column A of the ProcessedEmails tab
    clock,               \* datetime.utcnow(), in seconds
    runs,                \* run_sync invocations so far
    pc,                  \* position of run_sync: "idle", "loop" or "finish"
    use_sheet_mode,      \* run_sync local
    skip_forever_ids,    \* run_sync local
    to_process,          \* run_sync local
    idx,                 \* number of to_process entries the loop has consumed
    existing_apps,       \* run_sync local
    newly_processed_ids, \* run_sync local
    ev,                  \* what the loop did for the last email (the log line)
    run_log,             \* what the current run has done so far
    call                 \* the last direct call of a library function

vars == <<applications, next_id, processed_emails, call_count, sheet_apps,
          sheet_processed, clock, runs, pc, use_sheet_mode, skip_forever_ids,
          to_process, idx, existing_apps, newly_processed_ids, ev, run_log, call>>

storeVars == <<applications, next_id, processed_emails, call_count,
               sheet_apps, sheet_processed>>

(***************************************************************************)
(* database.py                                                             *)
(***************************************************************************)
get_skip_forever_ids(table) ==
    {r.email_id : r \in {x \in table : x.ai_attempted = 1 \/ x.pre_filter_rejected = 1}}

get_retry_ids(table) ==
    {r.email_id : r \in {x \in table : x.ai_attempted = 0 /\ x.pre_filter_rejected = 0}}

\* variant: INSERT without OR REPLACE on a table without the primary key
insert_plain(table, row) == table \cup {row}

\* INSERT OR REPLACE INTO processed_emails: email_id is the primary key, so
\* a row with the same email_id is deleted before the new row is inserted
insert_or_replace(table, row) ==
    {x \in table : x.email_id # row.email_id} \cup {row}

\* variant: the row of a rejected email has no flag set
mark_email_no_flag(table, email_id) ==
    insert_or_replace(table, [email_id |-> email_id, ai_attempted |-> 0,
                              pre_filter_rejected |-> 0])

mark_email_pre_filter_rejected(table, email_id) ==
    insert_or_replace(table, [email_id |-> email_id, ai_attempted |-> 0,
                              pre_filter_rejected |-> 1])

mark_email_ai_completed(table, email_id) ==
    insert_or_replace(table, [email_id |-> email_id, ai_attempted |-> 1,
                              pre_filter_rejected |-> 0])

mark_email_ai_failed_rate_limit(table, email_id) ==
    insert_or_replace(table, [email_id |-> email_id, ai_attempted |-> 0,
                              pre_filter_rejected |-> 0])

\* list.sort(key=last_updated, reverse=True), a stable sort; ORDER BY
\* last_updated DESC of SQLite likewise leaves rows of equal last_updated
\* in rowid order
RECURSIVE InsertByLastUpdated(_, _)
InsertByLastUpdated(sorted, app) ==
    IF sorted = <<>> THEN <<app>>
    ELSE IF Head(sorted).last_updated >= app.last_updated
         THEN <<Head(sorted)>> \o InsertByLastUpdated(Tail(sorted), app)
         ELSE <<app>> \o sorted

RECURSIVE SortByLastUpdatedDesc(_)
SortByLastUpdatedDesc(apps) ==
    IF apps = <<>> THEN <<>>
    ELSE InsertByLastUpdated(SortByLastUpdatedDesc(SubSeq(apps, 1, Len(apps) - 1)),
                             apps[Len(apps)])

\* variant: the query returns no rows
get_no_applications(table) == <<>>

get_all_applications(table) == SortByLastUpdatedDesc(table)

\* the INSERT branch (existing_id is None)
upsert_application(table, id, company, role, stage, app_type, date_applied, notes, now) ==
    Append(table, [id |-> id, company |-> company, role |-> role, stage |-> stage,
                   type |-> app_type, date_applied |-> date_applied,
                   last_updated |-> now, notes |-> notes])

\* variant: the UPDATE has no WHERE clause
update_every_application(table, app_id, stage, notes, now) ==
    [i \in 1..Len(table) |->
        [table[i] EXCEPT !.stage = stage, !.last_updated = now, !.notes = notes]]

update_application(table, app_id, stage, notes, now) ==
    [i \in 1..Len(table) |->
        IF table[i].id = app_id
        THEN [table[i] EXCEPT !.stage = stage, !.last_updated = now, !.notes = notes]
        ELSE table[i]]

(***************************************************************************)
(* sheets_sync.py                                                          *)
(***************************************************************************)
\* values().get on the Applications tab either raises, and the function
\* returns [], or returns the rows; every row the program writes has a
\* non-empty Last Updated cell, so it has at least 6 cells and is kept;
\* the id is the dummy id len(apps) + 1
read_applications_from_sheet(rows, ok) ==
    IF ok THEN [i \in 1..Len(rows) |-> [rows[i] EXCEPT !.id = i]] ELSE <<>>

\* values().get on the ProcessedEmails tab either raises, and the function
\* returns set(), or returns the ids of column A
read_processed_emails(ids, ok) == IF ok THEN ids ELSE {}

append_processed_emails(ids, email_ids) == ids \cup SeqToSet(email_ids)

\* the seven cells written per application: the id is not a column
write_applications(apps) == [i \in 1..Len(apps) |-> [apps[i] EXCEPT !.id = 0]]

(***************************************************************************)
(* ai_parser.py                                                            *)
(***************************************************************************)
\* What one parse_email_with_ai(email) invocation can return when the daily
\* counter is count, with the number of times it incremented the counter
\* (incr) and whether it sent a request to the provider (called).  The
\* provider's answers are the environment's choice.
parse_email_with_ai(count) ==
    LET R(status, parsed, incr, called) ==
            [status |-> status, parsed |-> parsed, incr |-> incr, called |-> called]
        NoParsed == [company |-> "", role |-> "", stage |-> "", date |-> "",
                     notes |-> "", is_internship |-> FALSE]
        \* results once k provider calls have returned
        Answered(k) ==
            {R("success", p, k, TRUE) : p \in ParsedRecords}
            \cup {R("success", NoParsed, k, TRUE), R("error", NoParsed, k, TRUE)}
        \* the re-ask after a first answer that is neither a record nor "null";
        \* a second answer on which float() raises ValueError returns "quota"
        ReAsk ==
            {R("quota", NoParsed, 1, TRUE)}
            \cup (IF count + 1 >= GEMINI_DAILY_QUOTA_LIMIT THEN {}
                  ELSE {R("rate_limit_fail", NoParsed, 1, TRUE), R("error", NoParsed, 1, TRUE),
                        R("quota", NoParsed, 2, TRUE)}
                       \cup Answered(2))
    IN  {R("error", NoParsed, 0, FALSE)}
        \cup (IF count >= GEMINI_DAILY_QUOTA_LIMIT
              THEN {R("quota", NoParsed, 0, FALSE)}
              ELSE {R("rate_limit_fail", NoParsed, 0, TRUE), R("error", NoParsed, 0, TRUE)}
                   \cup Answered(1) \cup ReAsk)

(***************************************************************************)
(* main.py: run_sync                                                       *)
(***************************************************************************)
NoApp == [id |-> 0 - 1, company |-> "", role |-> "", stage |-> "", type |-> "",
          date_applied |-> "", last_updated |-> 0, notes |-> ""]

NoEvent == [kind |-> "none", email |-> 0, sheet |-> FALSE, raw_company |-> "",
            company |-> "", role |-> "", stage |-> "", notes |-> "",
            matched |-> NoApp, upgraded |-> FALSE, count_before |-> 0]

NoRun == [fetched |-> {}, start_skip |-> {}, start_apps |-> <<>>, reads_ok |-> TRUE,
          provider_called |-> FALSE, filtered |-> {}, disposition_writes |-> {},
          app_writes |-> {}, done |-> FALSE, after_quota_stop |-> FALSE,
          written_before |-> {}, inserted |-> {}]

NoCall == [op |-> "none", email_id |-> 0, current |-> "", incoming |-> "",
           result |-> FALSE]

\* the emails of the mailbox whose id is in S, in mailbox order
RECURSIVE FetchFrom(_, _)
FetchFrom(i, S) ==
    IF i > NumEmails THEN <<>>
    ELSE (IF i \in S THEN <<Mailbox[i]>> ELSE <<>>) \o FetchFrom(i + 1, S)

\* the ids the Gmail query matches: the initial scan (months_back) reaches
\* the whole mailbox, the daily scan (days_back) all but its oldest message
ScanWindow(is_initial) == IF is_initial THEN EmailIds ELSE EmailIds \ {1}

fetch_emails(is_initial) == FetchFrom(1, ScanWindow(is_initial))

\* pre_filter.pre_filter on the messages of the mailbox
PreFilterOf == [i \in EmailIds |-> pre_filter(Mailbox[i])]

\* the stores and the program counter before the first run
InitRun ==
    /\ applications = <<>>
    /\ next_id = 1
    /\ processed_emails = {}
    /\ call_count = GEMINI_DAILY_QUOTA_LIMIT - QuotaSlack
    /\ sheet_apps = <<>>
    /\ sheet_processed = {}
    /\ clock = 0
    /\ runs = 0
    /\ pc = "idle"
    /\ use_sheet_mode \in BOOLEAN
    /\ skip_forever_ids = {}
    /\ to_process = <<>>
    /\ idx = 0
    /\ existing_apps = <<>>
    /\ newly_processed_ids = <<>>
    /\ ev = NoEvent
    /\ run_log = NoRun

Init == InitRun /\ call = NoCall

\* lines 35-84: the reads before the loop.  _is_ci_mode() is fixed by the
\* deployment (use_sheet_mode keeps its initial value); okProcessed / okApps
\* say whether the two Sheets reads of sheet mode return (TRUE) or raise (FALSE)
StartRun(is_initial, okProcessed, okApps) ==
    /\ pc = "idle"
    /\ runs < MaxRuns
    /\ use_sheet_mode \/ (okProcessed /\ okApps)
    /\ LET sheet == use_sheet_mode
           skip  == IF sheet
                   THEN read_processed_emails(sheet_processed, okProcessed)
                   ELSE get_skip_forever_ids(processed_emails)
       IN  /\ skip_forever_ids' = skip
           /\ to_process' = SelectSeq(fetch_emails(is_initial), LAMBDA e : e.id \notin skip)
    /\ existing_apps' =
          IF use_sheet_mode
          THEN SortByLastUpdatedDesc(read_applications_from_sheet(sheet_apps, okApps))
          ELSE get_all_applications(applications)
    /\ newly_processed_ids' = <<>>
    /\ idx' = 0
    /\ pc' = "loop"
    /\ runs' = runs + 1
    /\ ev' = NoEvent
    /\ run_log' = [NoRun EXCEPT
                     !.fetched = ScanWindow(is_initial),
                     !.reads_ok = okProcessed /\ okApps,
                     !.after_quota_stop = run_log.done /\ idx < Len(to_process),
                     !.written_before =
                        run_log.written_before
                        \cup (IF use_sheet_mode /\ ~run_log.done THEN {}
                              ELSE run_log.app_writes),
                     !.start_skip = IF use_sheet_mode THEN sheet_processed
                                    ELSE get_skip_forever_ids(processed_emails),
                     !.start_apps = IF use_sheet_mode THEN sheet_apps ELSE applications]
    /\ UNCHANGED <<call, storeVars, clock, use_sheet_mode>>

\* the loop is at an email and the quota check of lines 90-93 lets it pass
AtEmail ==
    /\ pc = "loop"
    /\ idx < Len(to_process)
    /\ use_sheet_mode \/ call_count < GEMINI_DAILY_QUOTA_LIMIT

email == to_process[idx + 1]

\* lines 90-93: break
LoopQuotaStop ==
    /\ pc = "loop"
    /\ idx < Len(to_process)
    /\ ~use_sheet_mode
    /\ call_count >= GEMINI_DAILY_QUOTA_LIMIT
    /\ pc' = "finish"
    /\ ev' = [NoEvent EXCEPT !.kind = "quota_stop", !.email = email.id]
    /\ UNCHANGED <<call, storeVars, clock, runs, use_sheet_mode, skip_forever_ids,
                   to_process, idx, existing_apps, newly_processed_ids, run_log>>

\* the disposition write of one email: mark is the database.mark_email_*
\* function of database mode; sheet mode appends the id to newly_processed_ids
RecordDisposition(mark(_, _)) ==
    IF use_sheet_mode
    THEN /\ newly_processed_ids' = Append(newly_processed_ids, email.id)
         /\ UNCHANGED processed_emails
    ELSE /\ processed_emails' = mark(processed_emails, email.id)
         /\ UNCHANGED newly_processed_ids

\* lines 95-103
PreFilterReject ==
    /\ AtEmail
    /\ PreFilterOf[email.id] # None
    /\ RecordDisposition(mark_email_pre_filter_rejected)
    /\ idx' = idx + 1
    /\ ev' = [NoEvent EXCEPT !.kind = "pre_filter", !.email = email.id,
                             !.sheet = use_sheet_mode]
    /\ run_log' = [run_log EXCEPT !.filtered = @ \cup {email.id},
                                  !.disposition_writes = @ \cup {email.id}]
    /\ UNCHANGED <<call, applications, next_id, call_count, sheet_apps, sheet_processed,
                   clock, runs, pc, use_sheet_mode, skip_forever_ids, to_process,
                   existing_apps>>

\* variant: status "quota" skips the email and the loop goes on
ClassifierQuotaSkips(o) ==
    /\ AtEmail
    /\ PreFilterOf[email.id] = None
    /\ o \in parse_email_with_ai(call_count)
    /\ o.status = "quota"
    /\ call_count' = call_count + o.incr
    /\ idx' = idx + 1
    /\ ev' = [NoEvent EXCEPT !.kind = "quota", !.email = email.id,
                             !.sheet = use_sheet_mode]
    /\ run_log' = [run_log EXCEPT !.filtered = @ \cup {email.id},
                                  !.provider_called = @ \/ o.called]
    /\ UNCHANGED <<call, applications, next_id, processed_emails, sheet_apps,
                   sheet_processed, clock, runs, pc, use_sheet_mode, skip_forever_ids,
                   to_process, existing_apps, newly_processed_ids>>

\* lines 105-109: break on status "quota"
ClassifierQuota(o) ==
    /\ AtEmail
    /\ PreFilterOf[email.id] = None
    /\ o \in parse_email_with_ai(call_count)
    /\ o.status = "quota"
    /\ call_count' = call_count + o.incr
    /\ pc' = "finish"
    /\ ev' = [NoEvent EXCEPT !.kind = "quota", !.email = email.id,
                             !.sheet = use_sheet_mode]
    /\ run_log' = [run_log EXCEPT !.filtered = @ \cup {email.id},
                                  !.provider_called = @ \/ o.called]
    /\ UNCHANGED <<call, applications, next_id, processed_emails, sheet_apps,
                   sheet_processed, clock, runs, use_sheet_mode, skip_forever_ids,
                   to_process, idx, existing_apps, newly_processed_ids>>

\* lines 111-127: status "rate_limit_fail" or "error"
ClassifierFailed(o) ==
    /\ AtEmail
    /\ PreFilterOf[email.id] = None
    /\ o \in parse_email_with_ai(call_count)
    /\ o.status \in {"rate_limit_fail", "error"}
    /\ call_count' = call_count + o.incr
    /\ RecordDisposition(mark_email_ai_failed_rate_limit)
    /\ idx' = idx + 1
    /\ ev' = [NoEvent EXCEPT !.kind = o.status, !.email = email.id,
                             !.sheet = use_sheet_mode]
    /\ run_log' = [run_log EXCEPT !.filtered = @ \cup {email.id},
                                  !.provider_called = @ \/ o.called,
                                  !.disposition_writes = @ \cup {email.id}]
    /\ UNCHANGED <<call, applications, next_id, sheet_apps, sheet_processed, clock,
                   runs, pc, use_sheet_mode, skip_forever_ids, to_process,
                   existing_apps>>

\* lines 129-136: status "success" with no record
ClassifierNull(o) ==
    /\ AtEmail
    /\ PreFilterOf[email.id] = None
    /\ o \in parse_email_with_ai(call_count)
    /\ o.status = "success"
    /\ o.parsed \notin ParsedRecords
    /\ call_count' = call_count + o.incr
    /\ RecordDisposition(mark_email_ai_completed)
    /\ idx' = idx + 1
    /\ ev' = [NoEvent EXCEPT !.kind = "null", !.email = email.id,
                             !.sheet = use_sheet_mode]
    /\ run_log' = [run_log EXCEPT !.filtered = @ \cup {email.id},
                                  !.provider_called = @ \/ o.called,
                                  !.disposition_writes = @ \cup {email.id}]
    /\ UNCHANGED <<call, applications, next_id, sheet_apps, sheet_processed, clock,
                   runs, pc, use_sheet_mode, skip_forever_ids, to_process,
                   existing_apps>>

\* normalize_company on the company strings the classifier returns
NormalizedCompany == [c \in {p.company : p \in ParsedRecords} |-> normalize_company(c)]

\* lines 164-167: the first app with the company and role of match gets the
\* new stage and notes
SheetUpdate(apps, match, new_stage, new_notes) ==
    LET Same(app) == app.company = match.company /\ app.role = match.role
        i == FirstIndex(apps, Same)
    IN  [j \in 1..Len(apps) |->
            IF j = i THEN [apps[j] EXCEPT !.stage = new_stage, !.notes = new_notes]
            ELSE apps[j]]

\* variant: the incoming stage is always written
MergedStageIncoming(current_stage, stage) == stage

\* lines 151-158: the stage and notes a matched application gets
MergedStage(current_stage, stage) ==
    IF should_upgrade_stage(current_stage, stage) THEN stage ELSE current_stage

\* variant: the incoming notes are always written
MergedNotesOverwrite(current_stage, stage, existing_notes, notes) == notes

MergedNotes(current_stage, stage, existing_notes, notes) ==
    IF should_upgrade_stage(current_stage, stage) THEN notes
    ELSE IF existing_notes # ""
         THEN strip_chars(existing_notes \o "; " \o notes, {";", " "})
         ELSE notes

\* lines 171-190: no tracked application matched the record
MergeNew(parsed, company, now) ==
    \E date_applied \in {IF parsed.date # "" THEN parsed.date ELSE email.date},
       app_type \in {IF parsed.is_internship THEN "Internship" ELSE "Full-time"} :
        /\ IF use_sheet_mode
           THEN /\ existing_apps' =
                      <<[id |-> 0, company |-> company, role |-> parsed.role,
                         stage |-> parsed.stage, type |-> app_type,
                         date_applied |-> date_applied, last_updated |-> now,
                         notes |-> parsed.notes]>> \o existing_apps
                /\ UNCHANGED <<applications, next_id>>
           ELSE \E written \in {upsert_application(applications, next_id, company,
                                                   parsed.role, parsed.stage, app_type,
                                                   date_applied, parsed.notes, now)} :
                    /\ applications' = written
                    /\ next_id' = next_id + 1
                    /\ existing_apps' = get_all_applications(written)
        /\ ev' = [kind |-> "insert", email |-> email.id, sheet |-> use_sheet_mode,
                  raw_company |-> parsed.company, company |-> company,
                  role |-> parsed.role, stage |-> parsed.stage,
                  notes |-> parsed.notes, matched |-> NoApp, upgraded |-> FALSE,
                  count_before |-> Len(existing_apps)]

\* variant: a matched record is written as a new application
MergeMatchedAsInsert(parsed, company, match, now) == MergeNew(parsed, company, now)

\* lines 150-170: the record matched the tracked application match
MergeMatched(parsed, company, match, now) ==
    \E new_stage \in {MergedStage(match.stage, parsed.stage)},
       new_notes \in {MergedNotes(match.stage, parsed.stage, match.notes, parsed.notes)} :
        /\ IF use_sheet_mode
           THEN /\ existing_apps' = SheetUpdate(existing_apps, match, new_stage, new_notes)
                /\ UNCHANGED applications
           ELSE \E written \in {update_application(applications, match.id,
                                                   new_stage, new_notes, now)} :
                    /\ applications' = written
                    /\ existing_apps' = get_all_applications(written)
        /\ UNCHANGED next_id
        /\ ev' = [kind |-> "update", email |-> email.id, sheet |-> use_sheet_mode,
                  raw_company |-> parsed.company, company |-> company,
                  role |-> parsed.role, stage |-> parsed.stage,
                  notes |-> parsed.notes, matched |-> match,
                  upgraded |-> should_upgrade_stage(match.stage, parsed.stage),
                  count_before |-> Len(existing_apps)]

\* lines 138-196: status "success" with a record; tick is the time that
\* passes before the write
MergeRecord(o, tick) ==
    /\ AtEmail
    /\ PreFilterOf[email.id] = None
    /\ o \in parse_email_with_ai(call_count)
    /\ o.status = "success"
    /\ o.parsed \in ParsedRecords
    /\ clock + tick <= MaxClock
    /\ clock' = clock + tick
    /\ call_count' = call_count + o.incr
    /\ \E company \in {NormalizedCompany[o.parsed.company]} :
       \E m \in {find_matching_application(company, o.parsed.role, existing_apps)} :
          IF m # 0
          THEN MergeMatched(o.parsed, company, existing_apps[m], clock + tick)
          ELSE MergeNew(o.parsed, company, clock + tick)
    /\ RecordDisposition(mark_email_ai_completed)
    /\ idx' = idx + 1
    /\ run_log' = [run_log EXCEPT !.filtered = @ \cup {email.id},
                                  !.provider_called = @ \/ o.called,
                                  !.disposition_writes = @ \cup {email.id},
                                  !.app_writes = @ \cup {email.id},
                                  !.inserted = IF ev'.kind = "insert"
                                               THEN @ \cup {<<email.id, ev'.company, ev'.role>>}
                                               ELSE @]
    /\ UNCHANGED <<call, sheet_apps, sheet_processed, runs, pc, use_sheet_mode,
                   skip_forever_ids, to_process>>

\* lines 198-237: after the loop.  Sheet mode appends the processed ids and
\* writes the in-memory applications to the sheet; database mode writes the
\* applications table to the sheet
FinishRun ==
    /\ \/ pc = "finish"
       \/ pc = "loop" /\ idx = Len(to_process)
    /\ IF use_sheet_mode
       THEN /\ sheet_processed' = append_processed_emails(sheet_processed,
                                                          newly_processed_ids)
            /\ sheet_apps' = write_applications(SortByLastUpdatedDesc(existing_apps))
       ELSE /\ sheet_apps' = write_applications(get_all_applications(applications))
            /\ UNCHANGED sheet_processed
    /\ pc' = "idle"
    /\ run_log' = [run_log EXCEPT !.done = TRUE]
    /\ ev' = [NoEvent EXCEPT !.kind = "finished", !.sheet = use_sheet_mode]
    /\ UNCHANGED <<call, applications, next_id, processed_emails, call_count, clock,
                   runs, use_sheet_mode, skip_forever_ids, to_process, idx,
                   existing_apps, newly_processed_ids>>

Next ==
    \/ \E is_initial \in BOOLEAN, okProcessed \in BOOLEAN, okApps \in BOOLEAN :
          StartRun(is_initial, okProcessed, okApps)
    \/ LoopQuotaStop
    \/ PreFilterReject
    \/ \E o \in parse_email_with_ai(call_count) : ClassifierQuota(o)
    \/ \E o \in parse_email_with_ai(call_count) : ClassifierFailed(o)
    \/ \E o \in parse_email_with_ai(call_count) : ClassifierNull(o)
    \/ \E o \in parse_email_with_ai(call_count), tick \in {0, 1} : MergeRecord(o, tick)
    \/ FinishRun

Spec == Init /\ [][Next]_vars


(***************************************************************************)
(* deduplication.should_upgrade_stage called directly on every pair of     *)
(* stage names: the nine stages and one name STAGE_PRIORITY does not have  *)
(***************************************************************************)
runVars == <<applications, next_id, processed_emails, call_count, sheet_apps,
             sheet_processed, clock, runs, pc, use_sheet_mode, skip_forever_ids,
             to_process, idx, existing_apps, newly_processed_ids, ev, run_log>>

StageInputs == StageSet \cup {"Ghosted"}

InitStage ==
    /\ InitRun
    /\ ~use_sheet_mode
    /\ call \in {[NoCall EXCEPT !.op = "input", !.current = c, !.incoming = i] :
                    c \in StageInputs, i \in StageInputs}

CallShouldUpgradeStage ==
    /\ call.op = "input"
    /\ call' = [call EXCEPT !.op = "should_upgrade_stage",
                            !.result = should_upgrade_stage(call.current, call.incoming)]
    /\ UNCHANGED runVars

NextStage == CallShouldUpgradeStage

SpecStage == InitStage /\ [][NextStage]_vars

(***************************************************************************)
(* database.mark_email_* called directly, in any order, on the             *)
(* processed_emails table                                                  *)
(***************************************************************************)
InitStore == InitRun /\ ~use_sheet_mode /\ call = NoCall

MarkCall(op, email_id, table) ==
    /\ processed_emails' = table
    /\ call' = [NoCall EXCEPT !.op = op, !.email_id = email_id]
    /\ UNCHANGED <<applications, next_id, call_count, sheet_apps, sheet_processed,
                   clock, runs, pc, use_sheet_mode, skip_forever_ids, to_process,
                   idx, existing_apps, newly_processed_ids, ev, run_log>>

CallMarkPreFilterRejected(email_id) ==
    MarkCall("mark_email_pre_filter_rejected", email_id,
             mark_email_pre_filter_rejected(processed_emails, email_id))

CallMarkAiCompleted(email_id) ==
    MarkCall("mark_email_ai_completed", email_id,
             mark_email_ai_completed(processed_emails, email_id))

CallMarkAiFailedRateLimit(email_id) ==
    MarkCall("mark_email_ai_failed_rate_limit", email_id,
             mark_email_ai_failed_rate_limit(processed_emails, email_id))

NextStore ==
    \/ \E email_id \in EmailIds : CallMarkPreFilterRejected(email_id)
    \/ \E email_id \in EmailIds : CallMarkAiCompleted(email_id)
    \/ \E email_id \in EmailIds : CallMarkAiFailedRateLimit(email_id)

SpecStore == InitStore /\ [][NextStore]_vars

(***************************************************************************)
(* Properties of should_upgrade_stage, under SpecStage                     *)
(***************************************************************************)
TerminalStages == {"Rejected", "Withdrawn"}

NonTerminalStages == StageSet \ TerminalStages

StageCallDone == call.op = "should_upgrade_stage"

C7_OfferSticky ==
    (StageCallDone /\ call.current = "Offer" /\ call.incoming \in StageSet)
        => call.result = (call.incoming = "Withdrawn")

\* C8: for every pair of non-terminal stages, should_upgrade_stage(current,
\* incoming) equals STAGE_PRIORITY[incoming] > STAGE_PRIORITY[current]
C8_NonTerminalByPriority ==
    (StageCallDone /\ call.current \in NonTerminalStages
                   /\ call.incoming \in NonTerminalStages)
        => call.result = (STAGE_PRIORITY(call.incoming) > STAGE_PRIORITY(call.current))

C8_Witness ==
    /\ StageCallDone
    /\ call.current = "Interview Scheduled"
    /\ call.incoming = "In Review"
    /\ call.result = FALSE

(***************************************************************************)
(* Property of the processed_emails table, under SpecStore                 *)
(***************************************************************************)
Unseen(table) == {id \in EmailIds : \A r \in table : r.email_id # id}

\* C3: after any sequence of mark_email_* calls every email id is in exactly
\* one of unseen (no row), skip-forever and retry-pending
C3_DispositionPartition ==
    \A id \in EmailIds :
        LET unseen == id \in Unseen(processed_emails)
            skip   == id \in get_skip_forever_ids(processed_emails)
            retry  == id \in get_retry_ids(processed_emails)
        IN  \/ unseen /\ ~skip /\ ~retry
            \/ ~unseen /\ skip /\ ~retry
            \/ ~unseen /\ ~skip /\ retry

C3_Witness ==
    /\ call.op = "mark_email_ai_failed_rate_limit"
    /\ call.email_id = 1
    /\ 1 \in get_retry_ids(processed_emails)
    /\ 2 \in get_skip_forever_ids(processed_emails)
    /\ 3 \in Unseen(processed_emails)

(***************************************************************************)
(* Properties of run_sync, under Spec.  ev describes the step the loop     *)
(* took last and run_log the run so far, so each property relates them to  *)
(* the stores the step left behind.                                        *)
(***************************************************************************)
\* the list run_sync keeps the tracked applications in while it runs
Tracked == IF use_sheet_mode THEN existing_apps ELSE applications

\* the tracked applications the update of the last step wrote to: the row
\* with the id of match (database mode), the entries with the company and
\* role of match (sheet mode)
WrittenApps ==
    {a \in SeqToSet(Tracked) :
        IF use_sheet_mode
        THEN a.company = ev.matched.company /\ a.role = ev.matched.role
        ELSE a.id = ev.matched.id}

\* the tracked application the insert of the last step added, and the others
NewApps ==
    IF use_sheet_mode THEN {Head(existing_apps)}
    ELSE {a \in SeqToSet(applications) : a.id = next_id - 1}

PriorApps ==
    IF use_sheet_mode THEN SeqToSet(Tail(existing_apps))
    ELSE {a \in SeqToSet(applications) : a.id # next_id - 1}

\* C1: an incoming stage other than Rejected and Withdrawn never lowers the
\* stored stage priority of the application it is merged into, and one of
\* lower or equal priority leaves the stored stage as it was
C1_StageNeverRegresses ==
    (ev.kind = "update" /\ ev.stage \notin TerminalStages)
        => /\ WrittenApps # {}
           /\ \A a \in WrittenApps :
                /\ STAGE_PRIORITY(a.stage) >= STAGE_PRIORITY(ev.matched.stage)
                /\ STAGE_PRIORITY(ev.stage) <= STAGE_PRIORITY(ev.matched.stage)
                      => a.stage = ev.matched.stage

C1_Witness ==
    /\ ev.kind = "update"
    /\ ev.stage = "In Review"
    /\ ev.matched.stage = "Interview Scheduled"
    /\ \E a \in WrittenApps : a.stage = "Interview Scheduled"

\* the identity of a tracked application
CompanyKey == [c \in StoredCompanies |-> normalize_company_for_match(c)]

RoleKey == [r \in RoleStrings |-> normalize_role_for_match(r)]

AppKey(app) == <<CompanyKey[app.company], RoleKey[app.role]>>

NoSharedKey(apps) ==
    \A i, j \in 1..Len(apps) : i # j => AppKey(apps[i]) # AppKey(apps[j])

\* C2: no two tracked applications share the pair
\* (normalize_company_for_match(company), normalize_role_for_match(role)),
\* in the database, in the list of the running sync and in the sheet
C2_IdentityUnique ==
    /\ NoSharedKey(applications)
    /\ NoSharedKey(existing_apps)
    /\ NoSharedKey(sheet_apps)

C2_Witness ==
    /\ ev.kind = "insert"
    /\ ev.count_before = 1
    /\ Len(Tracked) = 2
    /\ runs = 2

\* the condition of C9 on a record (company already normalized) and an app
KeyMatch(company, role, app) ==
    /\ CompanyKey[company] = CompanyKey[app.company]
    /\ \/ RoleKey[role] = RoleKey[app.role]
       \/ OverlapAtLeastThreshold(role_token_overlap(role, app.role))

\* C9: a record that matches a tracked application updates it and leaves the
\* number of tracked applications as it was; an application is added only
\* for a record that matches no tracked application
C9_NoDuplicateOnMatch ==
    /\ ev.kind = "update"
          => /\ Len(Tracked) = ev.count_before
             /\ WrittenApps # {}
             /\ KeyMatch(ev.company, ev.role, ev.matched)
    /\ ev.kind = "insert"
          => /\ Len(Tracked) = ev.count_before + 1
             /\ \A a \in PriorApps : ~KeyMatch(ev.company, ev.role, a)

C9_Witness ==
    /\ ev.kind = "update"
    /\ ev.raw_company = "google inc"
    /\ ev.role = "Software Engineering Intern"
    /\ ev.matched.company = "Google"
    /\ ev.matched.role = "Software Engineer Intern"
    /\ Len(Tracked) = ev.count_before

\* C10 as stated: an upgrade stores the incoming stage and notes; otherwise
\* the stage stays and the notes become the existing notes, "; " and the
\* incoming notes; an unmatched record is added with the incoming company,
\* role, stage and notes
C10_MergeOutcomeAsStated ==
    /\ ev.kind = "update"
          => \A a \in WrittenApps :
                IF should_upgrade_stage(ev.matched.stage, ev.stage)
                THEN a.stage = ev.stage /\ a.notes = ev.notes
                ELSE /\ a.stage = ev.matched.stage
                     /\ a.notes = ev.matched.notes \o "; " \o ev.notes
    /\ ev.kind = "insert"
          => \A a \in NewApps :
                /\ a.company = ev.raw_company
                /\ a.role = ev.role
                /\ a.stage = ev.stage
                /\ a.notes = ev.notes

\* C10: an upgrade stores the incoming stage and notes; otherwise the stage
\* stays and the notes become the incoming notes when the existing notes are
\* empty, else the existing notes, "; " and the incoming notes with leading
\* and trailing ";" and " " stripped; an unmatched record is added with the
\* company normalize_company gives, and the incoming role, stage and notes
C10_MergeOutcome ==
    /\ ev.kind = "update"
          => /\ WrittenApps # {}
             /\ \A a \in WrittenApps :
                   IF should_upgrade_stage(ev.matched.stage, ev.stage)
                   THEN a.stage = ev.stage /\ a.notes = ev.notes
                   ELSE /\ a.stage = ev.matched.stage
                        /\ a.notes =
                              IF ev.matched.notes = "" THEN ev.notes
                              ELSE strip_chars(ev.matched.notes \o "; " \o ev.notes,
                                               {";", " "})
    /\ ev.kind = "insert"
          => /\ NewApps # {}
             /\ \A a \in NewApps :
                   /\ a.company = NormalizedCompany[ev.raw_company]
                   /\ a.role = ev.role
                   /\ a.stage = ev.stage
                   /\ a.notes = ev.notes

C10_Witness ==
    /\ ev.kind = "update"
    /\ ~should_upgrade_stage(ev.matched.stage, ev.stage)
    /\ ev.matched.notes = ";withdrew"
    /\ \E a \in WrittenApps : a.notes = "withdrew; Under review"

\* C4: an email that is skip-forever when a run starts is not passed to
\* pre_filter or parse_email_with_ai in that run and gets no application
\* write and no disposition write
C4_SkipForeverFinal ==
    run_log.start_skip
        \cap (run_log.filtered \cup run_log.disposition_writes \cup run_log.app_writes)
      = {}

\* the tracked applications as stored between runs
Stored == IF use_sheet_mode THEN sheet_apps ELSE applications

\* C5: a run over emails that are all skip-forever when it starts makes no
\* provider call and leaves the stored applications as they were
C5_Idempotence ==
    (run_log.done /\ run_log.fetched \subseteq run_log.start_skip)
        => /\ ~run_log.provider_called
           /\ Stored = run_log.start_apps

\* the ids the program has recorded as skip-forever: the rows of
\* processed_emails with a flag set (database mode); the ProcessedEmails tab
\* and the ids run_sync holds to append to it (sheet mode)
RecordedSkipForever ==
    IF use_sheet_mode THEN sheet_processed \cup SeqToSet(newly_processed_ids)
    ELSE get_skip_forever_ids(processed_emails)

\* the ids recorded as retry-pending; the ProcessedEmails tab has no such rows
RecordedRetry ==
    IF use_sheet_mode THEN {} ELSE get_retry_ids(processed_emails)

ToProcessIds == {to_process[i].id : i \in 1..Len(to_process)}

\* C11: an email whose classifier status is rate_limit_fail or error is
\* recorded retry-pending and not skip-forever, the loop goes on, and a run
\* that fetches a retry-pending email has it in to_process
C11_ProviderFailuresRetried ==
    /\ ev.kind \in {"rate_limit_fail", "error"}
          => /\ ev.email \in RecordedRetry
             /\ ev.email \notin RecordedSkipForever
             /\ pc = "loop"
    /\ (pc = "loop" /\ idx = 0)
          => (run_log.fetched \cap RecordedRetry) \subseteq ToProcessIds

(***************************************************************************)
(* ai_parser.parse_email_with_ai invoked directly, any number of times,    *)
(* one provider request per step.  call holds the locals of the running    *)
(* invocation and, once it has returned, its result.                       *)
(***************************************************************************)
RATE_LIMIT_MAX_RETRIES == 3

RATE_LIMIT_WAIT_SECONDS == 60

NullRecord == [company |-> "", role |-> "", stage |-> "", date |-> "",
               notes |-> "", is_internship |-> FALSE]

\* What client.models.generate_content can do on one request.  It returns
\* a text: a JSON object _parse_ai_response accepts (text_record), the word
\* null in any letter case (text_null), the empty text (text_empty), a text
\* _parse_ai_response returns None for, such as prose, broken JSON, an
\* invalid stage or a low or missing confidence (text_malformed), an object
\* whose confidence is a non-numeric string, on which float() raises
\* ValueError (text_bad_float), an object with a field of the wrong type, on
\* which _parse_ai_response raises TypeError or AttributeError
\* (text_bad_type).  Or it raises: a rate-limit error (raise_429), a
\* ValueError (raise_value_error), any other exception (raise_other).  Or
\* it returns a text and database.increment_daily_gemini_count() raises an
\* sqlite3 error in _do_call, line 205 (store_raises).
TextKinds == {"text_record", "text_null", "text_empty", "text_malformed",
              "text_bad_float", "text_bad_type"}

RaiseKinds == {"raise_429", "raise_value_error", "raise_other", "store_raises"}

ProviderAnswers ==
    {[kind |-> "text_record", parsed |-> p] : p \in ParsedRecords}
    \cup {[kind |-> k, parsed |-> NullRecord] : k \in (TextKinds \ {"text_record"}) \cup RaiseKinds}

ParseOp == "parse_email_with_ai"

\* variant: the exception leaves parse_email_with_ai
Propagated == "raised"

\* variant: the counter is incremented before and after the request
increment_twice(count) == count + 2

\* database.increment_daily_gemini_count, called at line 205 when
\* generate_content has returned
increment_daily_gemini_count(count) == count + 1

\* variant: one more retry than RATE_LIMIT_MAX_RETRIES
retry_left_inclusive(attempt) == attempt <= RATE_LIMIT_MAX_RETRIES

\* line 218: attempt < RATE_LIMIT_MAX_RETRIES
retry_left(attempt) == attempt < RATE_LIMIT_MAX_RETRIES

\* variant: _do_call sends the request without reading the counter
quota_unchecked(count) == FALSE

\* lines 194-196: the counter check of _do_call, before every request
quota_reached(count) == count >= GEMINI_DAILY_QUOTA_LIMIT

\* variant: every text that gave no record is asked again
reask_any_text(kind) == TRUE

\* line 229: result is None and text and text.lower() != "null", for a
\* text that gave no record: the word null and the empty text are not asked
\* again
reask_text(kind) == kind \notin {"text_null", "text_empty"}

\* lines 245-247: the status the outer except clause returns for an
\* exception that reaches it
UnexpectedError == "error"

ParseRunning == call.op = ParseOp /\ call.at # "returned"

\* return (status, parsed)
ParseReturn(status, parsed, answers) ==
    call' = [call EXCEPT !.at = "returned", !.status = status, !.parsed = parsed,
                         !.answers = answers]

\* lines 167-179: the API key, the daily counter, the pause before the call.
\* api_key says whether GEMINI_API_KEY is set, min_seconds whether the config
\* module has the attribute MIN_SECONDS_BETWEEN_CALLS that line 179 reads
\* (config.py defines get_min_seconds_between_calls() only; reading a missing
\* attribute raises AttributeError, which line 245 turns into "error")
ParseBegin(api_key, min_seconds) ==
    /\ ~ParseRunning
    /\ call' = [op |-> ParseOp, at |-> "first", api_key |-> api_key,
                min_seconds |-> min_seconds, count_before |-> call_count,
                attempt |-> 0, slept |-> 0, answers |-> <<>>,
                status |-> "", parsed |-> NullRecord]
    /\ UNCHANGED call_count
    /\ UNCHANGED <<applications, next_id, processed_emails, sheet_apps, sheet_processed,
                   clock, runs, pc, use_sheet_mode, skip_forever_ids, to_process,
                   idx, existing_apps, newly_processed_ids, ev, run_log>>

ParseGuards ==
    /\ ParseRunning
    /\ call.at = "first"
    /\ call.attempt = 0
    /\ call.answers = <<>>
    /\ \/ ~call.api_key
       \/ call_count >= GEMINI_DAILY_QUOTA_LIMIT
       \/ ~call.min_seconds

\* lines 172-179 returning before any request
ParseEarlyReturn ==
    /\ ParseGuards
    /\ IF ~call.api_key THEN ParseReturn("error", NullRecord, <<>>)
       ELSE IF call_count >= GEMINI_DAILY_QUOTA_LIMIT
            THEN ParseReturn("quota", NullRecord, <<>>)
            ELSE ParseReturn(UnexpectedError, NullRecord, <<>>)
    /\ UNCHANGED call_count
    /\ UNCHANGED <<applications, next_id, processed_emails, sheet_apps, sheet_processed,
                   clock, runs, pc, use_sheet_mode, skip_forever_ids, to_process,
                   idx, existing_apps, newly_processed_ids, ev, run_log>>

\* lines 193-227: one pass of the loop over attempt; answer is what the
\* provider does on the request _do_call sends; call.slept is the time spent
\* in time.sleep(RATE_LIMIT_WAIT_SECONDS), line 220
ProviderFirst(answer) ==
    /\ ParseRunning
    /\ call.at = "first"
    /\ ~ParseGuards
    /\ \E answers \in {Append(call.answers, answer)} :
        IF quota_reached(call_count)
        THEN /\ ParseReturn("quota", NullRecord, call.answers)
             /\ UNCHANGED call_count
        ELSE IF answer.kind \in RaiseKinds
        THEN /\ UNCHANGED call_count
             /\ IF answer.kind = "raise_value_error"
                THEN ParseReturn(UnexpectedError, NullRecord, answers)
                ELSE IF answer.kind = "raise_429" /\ retry_left(call.attempt)
                THEN call' = [call EXCEPT !.attempt = @ + 1, !.answers = answers,
                                          !.slept = @ + RATE_LIMIT_WAIT_SECONDS]
                ELSE ParseReturn("rate_limit_fail", NullRecord, answers)
        ELSE /\ call_count' = increment_daily_gemini_count(call_count)
             /\ IF answer.kind \in {"text_bad_float", "text_bad_type"}
                THEN ParseReturn(UnexpectedError, NullRecord, answers)
                ELSE IF answer.kind = "text_record"
                THEN ParseReturn("success", answer.parsed, answers)
                ELSE IF ~reask_text(answer.kind)
                THEN ParseReturn("success", NullRecord, answers)
                ELSE call' = [call EXCEPT !.at = "reask", !.answers = answers]
    /\ UNCHANGED <<applications, next_id, processed_emails, sheet_apps, sheet_processed,
                   clock, runs, pc, use_sheet_mode, skip_forever_ids, to_process,
                   idx, existing_apps, newly_processed_ids, ev, run_log>>

\* lines 229-241: the second request, after a text that is not null and
\* gave no record
ProviderReAsk(answer) ==
    /\ ParseRunning
    /\ call.at = "reask"
    /\ \E answers \in {Append(call.answers, answer)} :
        IF quota_reached(call_count)
        THEN /\ ParseReturn("quota", NullRecord, call.answers)
             /\ UNCHANGED call_count
        ELSE IF answer.kind \in RaiseKinds
        THEN /\ UNCHANGED call_count
             /\ IF answer.kind = "raise_value_error"
                THEN ParseReturn("quota", NullRecord, answers)
                ELSE IF answer.kind = "raise_429"
                THEN ParseReturn("rate_limit_fail", NullRecord, answers)
                ELSE ParseReturn(UnexpectedError, NullRecord, answers)
        ELSE /\ call_count' = increment_daily_gemini_count(call_count)
             /\ IF answer.kind = "text_bad_float"
                THEN ParseReturn("quota", NullRecord, answers)
                ELSE IF answer.kind = "text_bad_type"
                THEN ParseReturn(UnexpectedError, NullRecord, answers)
                ELSE IF answer.kind = "text_record"
                THEN ParseReturn("success", answer.parsed, answers)
                ELSE ParseReturn("success", NullRecord, answers)
    /\ UNCHANGED <<applications, next_id, processed_emails, sheet_apps, sheet_processed,
                   clock, runs, pc, use_sheet_mode, skip_forever_ids, to_process,
                   idx, existing_apps, newly_processed_ids, ev, run_log>>

InitParse == InitRun /\ ~use_sheet_mode /\ call = NoCall

NextParse ==
    \/ \E api_key \in BOOLEAN, min_seconds \in BOOLEAN : ParseBegin(api_key, min_seconds)
    \/ ParseEarlyReturn
    \/ \E answer \in ProviderAnswers : ProviderFirst(answer)
    \/ \E answer \in ProviderAnswers : ProviderReAsk(answer)

SpecParse == InitParse /\ [][NextParse]_vars

(***************************************************************************)
(* Properties of parse_email_with_ai, under SpecParse                      *)
(***************************************************************************)
ParseReturned == call.op = ParseOp /\ call.at = "returned"

AnswerKinds == {call.answers[i].kind : i \in 1..Len(call.answers)}

LastAnswer == call.answers[Len(call.answers)]

\* the texts that are neither null, nor empty, nor a usable record
InvalidTextKinds == {"text_malformed", "text_bad_float", "text_bad_type"}

\* C12: when every request of an invocation returned a text and the last
\* text is not valid JSON or fails validation, parse_email_with_ai returns
\* ("success", None)
C12_MalformedIsTerminal ==
    (/\ ParseReturned
     /\ call.answers # <<>>
     /\ AnswerKinds \subseteq TextKinds
     /\ LastAnswer.kind \in InvalidTextKinds)
        => call.status = "success" /\ call.parsed = NullRecord

(***************************************************************************)
(* Properties of the loop of run_sync, under Spec                          *)
(***************************************************************************)
\* ev.kind after a step that called parse_email_with_ai
ClassifierKinds == {"quota", "rate_limit_fail", "error", "null", "insert", "update"}

\* ev.kind after a step that left the loop on the quota condition
QuotaKinds == {"quota", "quota_stop"}

\* a step that sends no provider request and leaves the counter as it is
NoProviderRequest ==
    /\ call_count' = call_count
    /\ run_log'.provider_called => run_log.provider_called

\* a step that handles no email: no disposition write, no application write
\* other than those of the emails the run has handled before
NoEmailHandled ==
    /\ processed_emails' = processed_emails
    /\ applications' = applications
    /\ run_log'.filtered = run_log.filtered
    /\ run_log'.disposition_writes = run_log.disposition_writes
    /\ run_log'.app_writes = run_log.app_writes
    /\ sheet_processed' \subseteq sheet_processed \cup run_log.disposition_writes

\* the loop has stopped on the quota condition: the run only finishes
StopsForTheRun ==
    /\ [](ev.kind \in QuotaKinds => pc = "finish")
    /\ [][pc = "finish" => (pc' = "idle" /\ NoProviderRequest /\ NoEmailHandled)]_vars

\* C13 as stated: with the counter at the limit parse_email_with_ai returns
\* "quota" without a provider request, and run_sync handles no further email
C13_QuotaHardStopAsStated ==
    /\ [][(call_count >= GEMINI_DAILY_QUOTA_LIMIT /\ ev'.kind \in ClassifierKinds)
             => (ev'.kind = "quota" /\ NoProviderRequest)]_vars
    /\ StopsForTheRun

\* C13: with the counter at the limit parse_email_with_ai sends no provider
\* request and returns "quota", or "error" when it returns before it reads
\* the counter; once the status is "quota", or the check at the head of the
\* loop finds the counter at the limit, run_sync handles no further email:
\* no provider request, no disposition write, no application write
C13_QuotaHardStop ==
    /\ [][(call_count >= GEMINI_DAILY_QUOTA_LIMIT /\ ev'.kind \in ClassifierKinds)
             => (ev'.kind \in {"quota", "error"} /\ NoProviderRequest)]_vars
    /\ StopsForTheRun

C13_Witness ==
    /\ pc = "finish"
    /\ ev.kind = "quota_stop"
    /\ call_count >= GEMINI_DAILY_QUOTA_LIMIT
    /\ idx >= 1
    /\ idx + 1 < Len(to_process)

\* the ids the disposition store holds as skip-forever, and all ids it holds
StoreSkipForever ==
    IF use_sheet_mode THEN sheet_processed ELSE get_skip_forever_ids(processed_emails)

StoreIds ==
    IF use_sheet_mode THEN sheet_processed
    ELSE {r.email_id : r \in processed_emails}

\* the ids of to_process at the positions from, from + 1, ...
IdsFrom(from) == {to_process[i].id : i \in from..Len(to_process)}

\* the run has finished and had left the loop before the end of to_process,
\* which only the two quota breaks do
StoppedOnQuota == run_log.done /\ pc = "idle" /\ idx < Len(to_process)

\* C14: after a run that stopped on the quota condition the email it stopped
\* at and the later ones have no disposition write and no application write
\* of that run, every earlier email has its disposition in the store, and
\* the run that starts next processes the fetched emails that are not
\* skip-forever in the store (the unseen and the retry-pending ones) and no
\* other
C14_CleanStopExactResume ==
    /\ StoppedOnQuota
          => /\ IdsFrom(idx + 1) \cap (run_log.disposition_writes \cup run_log.app_writes) = {}
             /\ (ToProcessIds \ IdsFrom(idx + 1)) \subseteq StoreIds
             /\ (IdsFrom(idx + 1) \cap StoreSkipForever) \subseteq run_log.start_skip
    /\ (pc = "loop" /\ idx = 0 /\ run_log.after_quota_stop)
          => ToProcessIds = run_log.fetched \ StoreSkipForever

\* C15: the disposition of every email the loop has handled is in the
\* disposition store before the next email is handled, in both modes
C15_ImmediateDisposition ==
    pc = "loop" => run_log.disposition_writes \subseteq StoreIds

(***************************************************************************)
(* run_sync interrupted: the process ends at some point of the run, the    *)
(* stores keep what was committed before that point, the locals are lost   *)
(* and a later run starts from the stores.  Besides Interrupt, which ends  *)
(* the run between two store writes, there is one action for each place    *)
(* where a handler has made the first of two store writes.                 *)
(***************************************************************************)
Interrupted == [NoEvent EXCEPT !.kind = "interrupted", !.sheet = use_sheet_mode]

\* the process ends while the loop is at an email or after the loop, before
\* the next store write
Interrupt ==
    /\ pc \in {"loop", "finish"}
    /\ pc' = "idle"
    /\ ev' = Interrupted
    /\ UNCHANGED <<call, storeVars, clock, runs, use_sheet_mode, skip_forever_ids,
                   to_process, idx, existing_apps, newly_processed_ids, run_log>>

\* database mode, lines 169-195: the process ends after update_application
\* or upsert_application has committed and before mark_email_ai_completed
InterruptedMerge(o, tick) ==
    /\ AtEmail
    /\ ~use_sheet_mode
    /\ PreFilterOf[email.id] = None
    /\ o \in parse_email_with_ai(call_count)
    /\ o.status = "success"
    /\ o.parsed \in ParsedRecords
    /\ clock + tick <= MaxClock
    /\ clock' = clock + tick
    /\ call_count' = call_count + o.incr
    /\ \E company \in {NormalizedCompany[o.parsed.company]} :
       \E m \in {find_matching_application(company, o.parsed.role, existing_apps)} :
          IF m # 0
          THEN MergeMatched(o.parsed, company, existing_apps[m], clock + tick)
          ELSE MergeNew(o.parsed, company, clock + tick)
    /\ pc' = "idle"
    /\ run_log' = [run_log EXCEPT !.filtered = @ \cup {email.id},
                                  !.provider_called = @ \/ o.called,
                                  !.app_writes = @ \cup {email.id}]
    /\ UNCHANGED <<call, processed_emails, sheet_apps, sheet_processed, runs,
                   use_sheet_mode, skip_forever_ids, to_process, idx,
                   newly_processed_ids>>

\* sheet mode, lines 218-226: the process ends after append_processed_emails
\* has written the ids and before sync_all has written the applications
InterruptedFinish ==
    /\ \/ pc = "finish"
       \/ pc = "loop" /\ idx = Len(to_process)
    /\ use_sheet_mode
    /\ sheet_processed' = append_processed_emails(sheet_processed, newly_processed_ids)
    /\ pc' = "idle"
    /\ ev' = Interrupted
    /\ UNCHANGED <<call, applications, next_id, processed_emails, call_count,
                   sheet_apps, clock, runs, use_sheet_mode, skip_forever_ids,
                   to_process, idx, existing_apps, newly_processed_ids, run_log>>

NextCrash ==
    \/ Next
    \/ Interrupt
    \/ \E o \in parse_email_with_ai(call_count), tick \in {0, 1} : InterruptedMerge(o, tick)
    \/ InterruptedFinish

SpecCrash == Init /\ [][NextCrash]_vars

(***************************************************************************)
(* Properties of interrupted runs, under SpecCrash                         *)
(***************************************************************************)
\* C16: an email whose record an earlier run wrote to the persisted
\* applications is not processed again: it is in run_log.written_before and
\* is never passed to pre_filter and the classifier
C16_NoReprocessingAfterCrash ==
    run_log.written_before \cap run_log.filtered = {}

\* C17: every email that is skip-forever in the store and whose record this
\* run added as a new application has an application of that company and
\* role in the persisted applications
C17_NoLostWorkAfterCrash ==
    \A t \in run_log.inserted :
        t[1] \in StoreSkipForever
            => \E a \in SeqToSet(Stored) : a.company = t[2] /\ a.role = t[3]

(***************************************************************************)
(* Properties of the list run_sync matches against, under Spec             *)
(***************************************************************************)
\* the positions of existing_apps that hold the company and role
RowsOf(company, role) ==
    {i \in 1..Len(existing_apps) :
        existing_apps[i].company = company /\ existing_apps[i].role = role}

\* C18: while the loop runs, the list find_matching_application is given
\* holds the effect of the emails handled so far: in database mode it is the
\* applications table as it is now, in both modes every application the run
\* has added is in it exactly once and the application updated last has the
\* merged stage and notes
C18_SequentialConsistency ==
    pc = "loop"
        => /\ ~use_sheet_mode => existing_apps = get_all_applications(applications)
           /\ \A t \in run_log.inserted : Cardinality(RowsOf(t[2], t[3])) = 1
           /\ ev.kind = "update"
                 => \E i \in RowsOf(ev.matched.company, ev.matched.role) :
                       /\ existing_apps[i].stage = MergedStage(ev.matched.stage, ev.stage)
                       /\ existing_apps[i].notes =
                             MergedNotes(ev.matched.stage, ev.stage,
                                         ev.matched.notes, ev.notes)

\* two emails of one run describe the same new application: the second one
\* matched the application the first one added, and there is one row
C18_Witness ==
    /\ pc = "loop"
    /\ ev.kind = "update"
    /\ \E t \in run_log.inserted :
          /\ t[1] # ev.email
          /\ t[2] = ev.matched.company
          /\ t[3] = ev.matched.role
    /\ Len(existing_apps) = 1

(***************************************************************************)
(* rule_extractor.py.  The messages of the mailbox carry subject, sender   *)
(* and date and an empty body, so of try_extract the part that decides     *)
(* between a record and None is the company taken from the sender; the     *)
(* role and stage of the record are not modelled.                          *)
(***************************************************************************)
MYWORKDAY_LOCAL_TO_COMPANY ==
    << <<"disney", "Walt Disney Company">>, <<"statestreet", "State Street">>,
       <<"activision", "Activision Blizzard King">>, <<"relx", "Elsevier">>,
       <<"tmobile", "T-Mobile">>, <<"abcfitness", "ABC Fitness Solutions">>,
       <<"abcworkday", "ABC Fitness Solutions">> >>

DOMAIN_TO_COMPANY ==
    << <<"brex.com", "Brex">>, <<"launchdarkly.com", "LaunchDarkly">>,
       <<"bytedance.com", "ByteDance">>, <<"careers.bytedance.com", "ByteDance">>,
       <<"sigmacomputing.com", "Sigma Computing">>, <<"zoox.com", "Zoox">>,
       <<"scale.com", "Scale AI">>, <<"multiplylabs.com", "Multiply Labs">>,
       <<"spotandtango.com", "Spot & Tango">>, <<"amazon.com", "Amazon">>,
       <<"amazon.jobs", "Amazon">>, <<"google.com", "Google">>,
       <<"meta.com", "Meta">>, <<"facebook.com", "Meta">>,
       <<"microsoft.com", "Microsoft">>, <<"apple.com", "Apple">>,
       <<"stripe.com", "Stripe">>, <<"uber.com", "Uber">>, <<"lyft.com", "Lyft">>,
       <<"airbnb.com", "Airbnb">>, <<"netflix.com", "Netflix">>,
       <<"adobe.com", "Adobe">>, <<"salesforce.com", "Salesforce">>,
       <<"oracle.com", "Oracle">>, <<"intel.com", "Intel">>,
       <<"nvidia.com", "NVIDIA">>, <<"amd.com", "AMD">>,
       <<"qualcomm.com", "Qualcomm">>, <<"ibm.com", "IBM">>, <<"dell.com", "Dell">>,
       <<"hp.com", "HP">>, <<"vmware.com", "VMware">>,
       <<"servicenow.com", "ServiceNow">>, <<"workday.com", "Workday">>,
       <<"sap.com", "SAP">>, <<"jpmorgan.com", "JPMorgan">>,
       <<"jpmchase.com", "JPMorgan">>, <<"goldmansachs.com", "Goldman Sachs">>,
       <<"morganstanley.com", "Morgan Stanley">>, <<"twilio.com", "Twilio">>,
       <<"databricks.com", "Databricks">>, <<"snowflake.com", "Snowflake">>,
       <<"mongodb.com", "MongoDB">>, <<"atlassian.com", "Atlassian">>,
       <<"slack.com", "Slack">>, <<"dropbox.com", "Dropbox">>, <<"box.com", "Box">>,
       <<"zoom.us", "Zoom">>, <<"roblox.com", "Roblox">>, <<"unity.com", "Unity">>,
       <<"epicgames.com", "Epic Games">>, <<"tesla.com", "Tesla">>,
       <<"spacex.com", "SpaceX">> >>

\* the literal text that follows the group ([a-z0-9-]+) in each pattern
ATS_DOMAIN_PATTERNS ==
    <<".lever.co", ".greenhouse.io", ".myworkdayjobs.com", ".workday.com",
      ".ashbyhq.com", ".jobs.ashbyhq.com", ".recruitee.com", ".rippling.com",
      ".dover.io">>

\* the value of an expression that raises an exception
Raises == "<raises>"

StartsWith(s, prefix) ==
    Len(s) >= Len(prefix) /\ SubSeq(s, 1, Len(prefix)) = prefix

\* str.replace(old, new) for a single character old
RECURSIVE replace_ch(_, _, _)
replace_ch(s, old, new) ==
    IF s = "" THEN ""
    ELSE (IF Head(s) = old THEN new ELSE Head(s)) \o replace_ch(Tail(s), old, new)

\* s.split(sep)[0] for a single character sep
RECURSIVE first_field(_, _)
first_field(s, sep) ==
    IF s = "" \/ Head(s) = sep THEN "" ELSE Head(s) \o first_field(Tail(s), sep)

\* rule_extractor._local_part: re.search(r"^([^@]+)@", from_addr), the text
\* before the first "@"; m.group(1) on a failed search raises
local_part(from_addr) ==
    IF first_field(from_addr, "@") = "" \/ ~Contains("@", from_addr) THEN Raises
    ELSE lower(first_field(from_addr, "@"))

\* the longest run of [a-z0-9-] characters that ends at position i
RECURSIVE AtsRunEndingAt(_, _)
AtsRunEndingAt(s, i) ==
    IF i >= 1 /\ Ch(s, i) \in LowerLetters \cup Digits \cup {"-"}
    THEN AtsRunEndingAt(s, i - 1) \o Ch(s, i) ELSE ""

\* re.search(r"([a-z0-9-]+)" + literal, base).group(1), "" when no match:
\* the leftmost match starts at the beginning of the run of class characters
\* before the first occurrence of the literal that has such a run
ats_group(base, literal) ==
    LET hits == {k \in 2..(Len(base) - Len(literal) + 1) :
                    /\ SubSeq(base, k, k + Len(literal) - 1) = literal
                    /\ AtsRunEndingAt(base, k - 1) # ""}
    IN  IF hits = {} THEN ""
        ELSE AtsRunEndingAt(base, (CHOOSE k \in hits : \A j \in hits : k <= j) - 1)

\* rule_extractor._domain_to_company: a name, None, or Raises
domain_to_company(domain, from_addr) ==
    LET base == lower(first_field(domain, "/"))
        \* lines 111-117: the company from the local part of a workday sender,
        \* "" when the code goes on to the table
        local == local_part(from_addr)
        HasKey(pair) == Contains(pair[1], local)
        k == FirstIndex(MYWORKDAY_LOCAL_TO_COMPANY, HasKey)
        workday == IF ~Contains("workday", base) THEN ""
                   ELSE IF local = Raises THEN Raises
                   ELSE IF k # 0 THEN MYWORKDAY_LOCAL_TO_COMPANY[k][2]
                   ELSE IF local \notin {"noreply", "no-reply", "donotreply"}
                        THEN title(replace_ch(replace_ch(replace_ch(local, ".", " "),
                                                         "-", " "), "_", " "))
                        ELSE ""
        \* lines 120-122
        InBase(pair) == Contains(pair[1], base)
        d == FirstIndex(DOMAIN_TO_COMPANY, InBase)
        \* lines 124-132: the name a pattern gives, "" when the pattern does not
        \* match or the name is not accepted
        ats_name(literal) ==
            LET name == title(replace_ch(ats_group(base, literal), "-", " "))
            IN  IF Len(name) > 2 /\ lower(name) \notin {"hire", "jobs", "careers"}
                THEN name ELSE ""
        Named(literal) == ats_name(literal) # ""
        a == IF Contains("lever.co", base) /\ StartsWith(base, "hire.") THEN 0
             ELSE FirstIndex(ATS_DOMAIN_PATTERNS, Named)
        \* lines 134-138
        prefixes == <<"jobs.", "recruiting.", "careers.", "talent.">>
        Prefixed(prefix) == StartsWith(base, prefix)
        p == FirstIndex(prefixes, Prefixed)
        core == IF p = 0 THEN ""
                ELSE first_field(SubSeq(base, Len(prefixes[p]) + 1, Len(base)), ".")
        \* lines 140-143
        first == first_field(base, ".")
    IN  IF domain = "" THEN None
        ELSE IF workday # "" THEN workday
        ELSE IF d # 0 THEN DOMAIN_TO_COMPANY[d][2]
        ELSE IF a # 0 THEN ats_name(ATS_DOMAIN_PATTERNS[a])
        ELSE IF p # 0 /\ Len(core) > 2 THEN title(replace_ch(core, "-", " "))
        ELSE IF /\ Contains(".", base)
                /\ \A x \in {"greenhouse", "lever", "workday", "ashby"} : ~Contains(x, base)
                /\ first \notin {"mail", "email", "no-reply", "noreply", "careers",
                                 "jobs", "hire", "us"}
                /\ Len(first) > 2
             THEN title(replace_ch(first, "-", " "))
        ELSE None

\* rule_extractor.try_extract on a message with an empty body: None, Raises
\* (_extract_domain calls m.group(1) on a failed search), or a record, of
\* which company is the company field
try_extract(msg) ==
    LET domain == extract_domain(msg.from)
        company == IF domain = "" THEN Raises
                   ELSE domain_to_company(domain, msg.from)
    IN  IF company = Raises THEN [result |-> Raises, company |-> ""]
        ELSE IF company = None THEN [result |-> None, company |-> ""]
        ELSE [result |-> "record", company |-> company]

\* C19: parse_email_with_ai is invoked for an email only when try_extract
\* returned None for it; an email try_extract gives a record for causes no
\* provider call
C19_AiIsFallbackOnly ==
    ev.kind \in ClassifierKinds => try_extract(Mailbox[ev.email]).result = None

\* the step of the loop that takes the pre_filter reject branch for the
\* email at the head of to_process
PreFilterRejectStep ==
    AtEmail /\ PreFilterOf[email.id] # None /\ idx' = idx + 1

\* the emails of the mailbox pre_filter rejects
RejectedIds == {i \in EmailIds : PreFilterOf[i] # None}

\* C20: the step that rejects an email on pre_filter sends no provider
\* request, leaves the daily counter and the applications as they are and
\* records the email skip-forever (database mode: the row with
\* pre_filter_rejected = 1; sheet mode: the id in the list the run appends
\* to the ProcessedEmails tab, which holds it when the run has finished); no
\* application write of a run is for an email pre_filter rejects; and the
\* classifier runs only for an email on which pre_filter returned None
C20_PreFilterRejectionFreeAndTerminal ==
    /\ [][PreFilterRejectStep
             => /\ NoProviderRequest
                /\ applications' = applications
                /\ sheet_apps' = sheet_apps
                /\ next_id' = next_id
                /\ email.id \in RecordedSkipForever'
                /\ email.id \notin RecordedRetry']_vars
    /\ [](run_log.app_writes \cap RejectedIds = {})
    /\ [](run_log.done
             => run_log.disposition_writes \cap RejectedIds \subseteq StoreSkipForever)
    /\ [](ev.kind \in ClassifierKinds => PreFilterOf[ev.email] = None)

\* an email has been rejected by pre_filter after the classifier has sent
\* provider requests for earlier emails
C20_Witness ==
    /\ ev.kind = "pre_filter"
    /\ PreFilterOf[ev.email] # None
    /\ run_log.provider_called
    /\ ev.email \in RecordedSkipForever

(***************************************************************************)
(* run_sync with a database call that raises.  The functions of            *)
(* database.py close the connection in a finally clause and catch nothing, *)
(* and run_sync has no try statement, so an sqlite3 error raised by the    *)
(* first database call of an iteration leaves run_sync.                    *)
(***************************************************************************)
\* database mode, lines 90-91: database.get_daily_gemini_count() raises at
\* the head of the loop; the exception propagates out of run_sync
DatabaseCallRaises ==
    /\ AtEmail
    /\ ~use_sheet_mode
    /\ pc' = "idle"
    /\ ev' = [NoEvent EXCEPT !.kind = "raised", !.email = email.id]
    /\ UNCHANGED <<call, storeVars, clock, runs, use_sheet_mode, skip_forever_ids,
                   to_process, idx, existing_apps, newly_processed_ids, run_log>>

NextRaise == Next \/ DatabaseCallRaises

SpecRaise == Init /\ [][NextRaise]_vars

\* C21: the loop of run_sync is left before the end of to_process only on
\* the daily-quota condition; an exception raised while an email is
\* processed does not end the run
C21_FailureIsolation ==
    [][pc = "loop" /\ pc' # "loop"
          => idx' = Len(to_process) \/ ev'.kind \in QuotaKinds]_vars

\* the four statuses of the docstring of parse_email_with_ai
ParseStatuses == {"success", "quota", "rate_limit_fail", "error"}

\* C22: whatever the provider and the counter store do (a text of any kind,
\* any exception, a missing API key, a failing counter write), an
\* invocation of parse_email_with_ai that has started can go on, and when
\* it has returned its status is one of the four statuses and its record is
\* None unless the status is success
C22_NeverRaises ==
    /\ ParseRunning => ENABLED NextParse
    /\ ParseReturned
          => /\ call.status \in ParseStatuses
             /\ call.parsed # NullRecord => call.status = "success"

\* an invocation has returned after an exception reached the outer except
\* clause or after the counter write failed
C22_Witness ==
    /\ ParseReturned
    /\ call.answers # <<>>
    /\ LastAnswer.kind \in {"text_bad_float", "text_bad_type", "raise_value_error",
                            "store_raises"}
    /\ call.status \in {"error", "rate_limit_fail"}

\* the positions of call.answers at which the provider raised an exception
\* that is not a rate-limit error
NonRateLimitRaises ==
    {i \in 1..Len(call.answers) :
        call.answers[i].kind \in {"raise_value_error", "raise_other"}}

\* C23: when a provider call raised an exception that is not a rate-limit
\* error, that call is the last one of the invocation and the invocation
\* returns ("error", None)
C23_NonRateLimitIsError ==
    (ParseReturned /\ NonRateLimitRaises # {})
        => /\ NonRateLimitRaises = {Len(call.answers)}
           /\ call.status = "error"
           /\ call.parsed = NullRecord

\* the number of rate-limit errors at the head of call.answers
RECURSIVE Leading429(_)
Leading429(answers) ==
    IF answers # <<>> /\ Head(answers).kind = "raise_429"
    THEN 1 + Leading429(Tail(answers)) ELSE 0

\* C24: an invocation repeats its request after a rate-limit error at most
\* RATE_LIMIT_MAX_RETRIES times and has waited RATE_LIMIT_WAIT_SECONDS
\* before each repetition; when the first request and all the repetitions
\* hit the rate limit it returns ("rate_limit_fail", None) after these
\* RATE_LIMIT_MAX_RETRIES + 1 requests; and once a request has returned a
\* text the request is not repeated (at most the one re-ask request follows)
C24_BoundedRateLimitRetry ==
    call.op = ParseOp
        => /\ call.attempt <= RATE_LIMIT_MAX_RETRIES
           /\ call.slept = call.attempt * RATE_LIMIT_WAIT_SECONDS
           /\ call.attempt <= Leading429(call.answers)
           /\ Leading429(call.answers) <= RATE_LIMIT_MAX_RETRIES + 1
           /\ ParseRunning /\ call.at = "first" => call.attempt = Len(call.answers)
           /\ (ParseReturned /\ Leading429(call.answers) = RATE_LIMIT_MAX_RETRIES + 1)
                 => /\ call.status = "rate_limit_fail"
                    /\ call.parsed = NullRecord
                    /\ Len(call.answers) = RATE_LIMIT_MAX_RETRIES + 1
           /\ (ParseReturned /\ call.status = "rate_limit_fail"
               /\ Len(call.answers) = Leading429(call.answers))
                 => Leading429(call.answers) = RATE_LIMIT_MAX_RETRIES + 1
           /\ \A i \in 1..Len(call.answers) :
                 call.answers[i].kind \in TextKinds => Len(call.answers) <= i + 1

\* the first request and the three repetitions hit the rate limit
C24_Witness ==
    /\ ParseReturned
    /\ call.status = "rate_limit_fail"
    /\ Leading429(call.answers) = 4
    /\ call.slept = 180

\* the answer of the provider request the step has sent, if it has sent one
NewAnswers ==
    IF call.op = ParseOp /\ call'.op = ParseOp
       /\ Len(call'.answers) = Len(call.answers) + 1
    THEN {call'.answers[Len(call'.answers)]} ELSE {}

\* the number of requests of the invocation that returned a text
RECURSIVE TextsIn(_)
TextsIn(answers) ==
    IF answers = <<>> THEN 0
    ELSE (IF Head(answers).kind \in TextKinds THEN 1 ELSE 0) + TextsIn(Tail(answers))

MIN_CONFIDENCE == 70

\* The objects the provider's text can hold: company, role and stage are
\* strings, the confidence field is absent (present = FALSE) or a number.
DecodedObjects ==
    {[company |-> c, role |-> r, stage |-> s, confidence |-> k] :
        c \in {"Acme", " Acme ", "", "  ", "Unknown"},
        r \in {"Engineer", " ", "unknown"},
        s \in {"Offer", "Applied", " Offer ", "offer", "Ghosted", ""},
        k \in {[present |-> FALSE, value |-> 0]}
              \cup {[present |-> TRUE, value |-> v] : v \in {0, 69, 70, 100}}}

\* the JSON text of an object, as json.dumps writes it
json_dumps(d) ==
    LET number == [v \in {0, 69, 70, 100} |->
                      CASE v = 0 -> "0.0" [] v = 69 -> "0.69" [] v = 70 -> "0.7"
                        [] OTHER -> "1.0"]
    IN  "{\"company\": \"" \o d.company \o "\", \"role\": \"" \o d.role
        \o "\", \"stage\": \"" \o d.stage \o "\""
        \o (IF d.confidence.present
            THEN ", \"confidence\": " \o number[d.confidence.value] ELSE "")
        \o "}"

JsonTexts == {[text |-> json_dumps(d), data |-> d] : d \in DecodedObjects}

JSONDecodeError == [company |-> "", role |-> "", stage |-> "<JSONDecodeError>",
                    confidence |-> [present |-> FALSE, value |-> 0]]

\* json.loads on the texts of JsonTexts; any other text of the model is not
\* a JSON document
json_loads(s) ==
    IF \E j \in JsonTexts : j.text = s
    THEN (CHOOSE j \in JsonTexts : j.text = s).data
    ELSE JSONDecodeError

\* lines 104-113: the index of the "}" that closes the "{" at start, 0 when
\* there is none: the first position after start where as many "}" as "{"
\* have been read since start; braces are counted wherever they are
ClosingBrace(text, start) ==
    LET Depth(i) == Cardinality({j \in start..i : Ch(text, j) = "{"})
                    - Cardinality({j \in start..i : Ch(text, j) = "}"})
        ends == {i \in start..Len(text) : Ch(text, i) = "}" /\ Depth(i) = 0}
    IN  IF ends = {} THEN 0 ELSE CHOOSE i \in ends : \A j \in ends : i <= j

\* variant: the whole text is taken as the JSON document
json_whole(text) == text

\* lines 100-116: text[start : end + 1], None when there is no such span
json_span(text) ==
    LET opens == {i \in 1..Len(text) : Ch(text, i) = "{"}
        start == CHOOSE i \in opens : \A j \in opens : i <= j
    IN  IF opens = {} THEN None
        ELSE IF ClosingBrace(text, start) = 0 THEN None
        ELSE SubSeq(text, start, ClosingBrace(text, start))

\* what _parse_ai_response returns: None (accepted = FALSE) or the record
NoRecord == [accepted |-> FALSE, company |-> "", role |-> "", stage |-> ""]

\* lines 123-153 of _parse_ai_response, on the decoded object
validate_data(data) ==
    LET company    == strip(data.company)
        role       == strip(data.role)
        stage      == strip(data.stage)
        confidence == IF data.confidence.present THEN data.confidence.value ELSE 0
    IN  IF company = "" \/ lower(company) = "unknown" THEN NoRecord
        ELSE IF role = "" \/ lower(role) = "unknown" THEN NoRecord
        ELSE IF stage \notin StageSet THEN NoRecord
        ELSE IF confidence < MIN_CONFIDENCE THEN NoRecord
        ELSE [accepted |-> TRUE, company |-> company, role |-> role, stage |-> stage]

\* ai_parser._parse_ai_response
parse_ai_response(response_text) ==
    LET text == strip(response_text)
        span == json_span(text)
    IN  IF (Len(text) = 4 /\ lower(text) = "null") \/ text = "" THEN NoRecord
        ELSE IF span = None THEN NoRecord
        ELSE IF json_loads(span) = JSONDecodeError THEN NoRecord
        ELSE validate_data(json_loads(span))

\* the texts a response can be: an object alone, in code-fence markers, in
\* prose; and texts that hold no object.  A fence is written ~~~ here, the
\* string syntax having no backquote; _parse_ai_response treats either as
\* a character that is not a brace
Fenced(text) == "~~~json\n" \o text \o "\n~~~"

InProse(text) == "Here is the result: " \o text \o " Hope this helps."

ResponseTexts ==
    {j.text : j \in JsonTexts}
    \cup {Fenced(j.text) : j \in JsonTexts}
    \cup {InProse(j.text) : j \in JsonTexts}
    \cup {"null", "NULL", " null\n", "", "not a job email", "{\"company\": \"Acme\"",
          "{company: Acme}", "null."}

\* line 229 of parse_email_with_ai: whether the request is sent again with
\* the stricter prompt, given the text and what _parse_ai_response made of it
reask_needed(text, result) ==
    ~result.accepted /\ text # "" /\ ~(Len(text) = 4 /\ lower(text) = "null")

\* the emails pre_filter is called on
FilterInputs ==
    {[id |-> 1, subject |-> subject, from |-> from] :
        subject \in {"Job alert: your application", "Your application was received",
                     "Hello there", "New jobs for you", "Interview digest",
                     "WEEKLY DIGEST", ""},
        from \in {"no-reply@greenhouse.io", "Bob <bob@gmail.com>", "jobs@ziprecruiter.com",
                  "jobs-noreply@linkedin.com", "x@e.linkedin.com", "careers@acme.com",
                  "alerts@mail.gmail.com", "nobody", "x@indeed.com.greenhouse.io",
                  "Recruiter <R@Jobs.Lever.CO>"}}

\* the emails try_extract is called on; subject and body are empty
ExtractInputs ==
    {[id |-> 1, subject |-> "", body |-> "", from |-> from] :
        from \in {"careers@acme.com", "Greenhouse <no-reply@us.greenhouse.io>",
                  "jobs-noreply@linkedin.com", "noreply@stripe.com", "disney@myworkday.com",
                  "noreply@myworkday.com", "foo.bar@wd5.myworkdayjobs.com",
                  "no-reply@workday.com", "x@hire.lever.co", "x@acme-corp.lever.co",
                  "x@jobs.ashbyhq.com", "x@ab.greenhouse.io", "x@jobs.my-co.io",
                  "x@careers.ab.com", "x@mail.acme.com", "x@us.com", "x@big-co.org",
                  "nobody", "", "@acme.com", "@workday.com", "x@talent.foo", "x@localhost",
                  "x@acme.jobs.ashbyhq.com", "a@b@zoox.com", "x@hire.jobs.rippling.com",
                  "Name <x@notion.recruitee.com>", "x@jobs.lever.co"}}

\* the records and lists find_matching_application is called on
MatchRoles == {"Software Engineer Intern", "Software Engineering Intern",
               "Data Platform Infrastructure Engineer", "Data Platform Infrastructure"}

MatchApps == {[company |-> c, role |-> r] : c \in {"Google", "Stripe"}, r \in MatchRoles}

MatchLists ==
    {<<>>} \cup {<<a>> : a \in MatchApps} \cup {<<a, b>> : a \in MatchApps, b \in MatchApps}

InitCalls == InitRun /\ ~use_sheet_mode /\ call = NoCall

CallParseAiResponse(response_text) ==
    /\ call = NoCall
    /\ call' = [op |-> "_parse_ai_response", text |-> response_text,
                result |-> parse_ai_response(response_text),
                reask |-> reask_needed(response_text, parse_ai_response(response_text))]
    /\ UNCHANGED runVars

CallPreFilter(msg) ==
    /\ call = NoCall
    /\ call' = [op |-> "pre_filter", email |-> msg, result |-> pre_filter(msg)]
    /\ UNCHANGED runVars

CallTryExtract(msg) ==
    /\ call = NoCall
    /\ call' = [op |-> "try_extract", email |-> msg, result |-> try_extract(msg)]
    /\ UNCHANGED runVars

CallFindMatchingApplication(company, role, apps) ==
    /\ call = NoCall
    /\ call' = [op |-> "find_matching_application", company |-> company, role |-> role,
                existing_apps |-> apps,
                result |-> find_matching_application(company, role, apps)]
    /\ UNCHANGED runVars

NextCalls ==
    \/ \E response_text \in ResponseTexts : CallParseAiResponse(response_text)
    \/ \E company \in {"Google", "google inc", "Stripe"}, role \in MatchRoles,
          apps \in MatchLists : CallFindMatchingApplication(company, role, apps)
    \/ \E msg \in ExtractInputs : CallTryExtract(msg)
    \/ \E msg \in FilterInputs : CallPreFilter(msg)

SpecCalls == InitCalls /\ [][NextCalls]_vars

(***************************************************************************)
(* Properties of the functions called directly, under SpecCalls            *)
(***************************************************************************)
\* the object a response text holds
DecodedOf(response_text) == json_loads(json_span(strip(response_text)))

\* C26: a decoded object is accepted as a record iff its company and role
\* are non-empty after trimming, its stage is one of the nine stages and
\* its confidence, if it has one, is at least MIN_CONFIDENCE
C26_ResponseValidation ==
    (call.op = "_parse_ai_response" /\ json_span(strip(call.text)) # None
     /\ DecodedOf(call.text) # JSONDecodeError)
        => (call.result.accepted
               <=> /\ strip(DecodedOf(call.text).company) # ""
                   /\ strip(DecodedOf(call.text).role) # ""
                   /\ strip(DecodedOf(call.text).stage) \in StageSet
                   /\ DecodedOf(call.text).confidence.present
                         => DecodedOf(call.text).confidence.value >= MIN_CONFIDENCE)

\* an object that passes every check of the validation
ValidObject(d) ==
    /\ strip(d.company) # "" /\ lower(strip(d.company)) # "unknown"
    /\ strip(d.role) # "" /\ lower(strip(d.role)) # "unknown"
    /\ strip(d.stage) \in StageSet
    /\ d.confidence.present /\ d.confidence.value >= MIN_CONFIDENCE

\* C27: on the response "null" _parse_ai_response returns None and
\* parse_email_with_ai sends no second request (it returns ("success", None)
\* after the one request); on a response that holds a valid object alone,
\* in code-fence markers or in prose, the first balanced {...} span is the
\* object, the result is the record of the object, with its stage, and no
\* second request is sent
C27_PermissiveParsing ==
    call.op = "_parse_ai_response"
        => /\ call.text = "null" => ~call.result.accepted /\ ~call.reask
           /\ \A j \in JsonTexts :
                 (call.text \in {j.text, Fenced(j.text), InProse(j.text)}
                  /\ ValidObject(j.data))
                    => /\ json_span(strip(call.text)) = j.text
                       /\ call.result.accepted
                       /\ call.result.stage = strip(j.data.stage)
                       /\ call.result.company = strip(j.data.company)
                       /\ call.result.role = strip(j.data.role)
                       /\ ~call.reask

\* the response holds an object with stage Offer in code-fence markers
C27_Witness ==
    /\ call.op = "_parse_ai_response"
    /\ call.text = Fenced("{\"company\": \"Acme\", \"role\": \"Engineer\", \"stage\": \"Offer\", \"confidence\": 1.0}")
    /\ call.result.accepted
    /\ call.result.stage = "Offer"

\* the rules of the pre-filter, on the lower-cased subject and the domain
\* of the lower-cased sender
HardRejectSubject(subject) ==
    \E i \in 1..Len(HARD_REJECT_SUBJECTS) : Contains(HARD_REJECT_SUBJECTS[i], subject)

BlastFromJobBoard(subject, domain) ==
    \E i \in 1..Len(JOB_BOARD_BLAST_RULES) :
        /\ Contains(JOB_BOARD_BLAST_RULES[i].domain, domain)
        /\ \E k \in 1..Len(JOB_BOARD_BLAST_RULES[i].subjects) :
              Contains(JOB_BOARD_BLAST_RULES[i].subjects[k], subject)

MustPassOrAts(subject, domain) ==
    \/ \E i \in 1..Len(MUST_PASS_SUBJECTS) : Contains(MUST_PASS_SUBJECTS[i], subject)
    \/ \E i \in 1..Len(ATS_DOMAINS) : Contains(ATS_DOMAINS[i], domain)

\* C28: pre_filter returns a reason, that of the first rule that applies,
\* when (1) the subject contains a hard-reject phrase, (2) the sender domain
\* is a personal domain, (3) the sender domain is an always-reject domain,
\* (4) the sender domain contains a job-board domain and the subject a blast
\* keyword of it; when none applies it returns None iff the subject
\* contains a must-pass keyword or the sender domain contains an ATS domain
C28_PreFilterDecision ==
    call.op = "pre_filter"
        => \E subject \in {lower(call.email.subject)} :
           \E domain \in {extract_domain(lower(call.email.from))} :
              IF HardRejectSubject(subject)
              THEN StartsWith(call.result, "subject contains '")
              ELSE IF domain \in PERSONAL_DOMAINS
              THEN call.result = "sender domain is personal: " \o domain
              ELSE IF domain \in ALWAYS_REJECT_DOMAINS
              THEN call.result = "sender is job board blast: " \o domain
              ELSE IF BlastFromJobBoard(subject, domain)
              THEN StartsWith(call.result, "from " \o domain \o " and subject contains '")
              ELSE /\ call.result = None <=> MustPassOrAts(subject, domain)
                   /\ call.result # ""

\* a hard-reject subject with a must-pass keyword, from an ATS sender
C28_Witness ==
    /\ call.op = "pre_filter"
    /\ call.email.subject = "Job alert: your application"
    /\ call.email.from = "no-reply@greenhouse.io"
    /\ call.result = "subject contains 'job alert'"

\* C29: try_extract does not raise: on every email, one whose sender has no
\* "@" or is empty included, it returns None or a record with a non-empty
\* company
C29_TryExtractNeverRaises ==
    call.op = "try_extract"
        => /\ call.result.result \in {None, "record"}
           /\ call.result.result = "record" => call.result.company # ""

\* the application at position i of the list of the call has the company
\* key of the record of the call
SameCompanyKey(i) ==
    normalize_company_for_match(call.company)
        = normalize_company_for_match(call.existing_apps[i].company)

\* and its role key is that of the record or the token overlap of the two
\* roles is at least 0.75
SameCompanyAndRole(i) ==
    /\ SameCompanyKey(i)
    /\ \/ normalize_role_for_match(call.role)
             = normalize_role_for_match(call.existing_apps[i].role)
       \/ \E ov \in {role_token_overlap(call.role, call.existing_apps[i].role)} :
             4 * ov[1] >= 3 * ov[2]

\* C30: find_matching_application returns the first application of the
\* list, in list order, with the company key of the record and a role key
\* equal to the record's or a token overlap of at least 0.75; None when the
\* list has none; never an application with another company key
C30_FirstMatchReturned ==
    call.op = "find_matching_application"
        => /\ call.result = 0
                 <=> \A i \in 1..Len(call.existing_apps) : ~SameCompanyAndRole(i)
           /\ call.result # 0
                 => /\ call.result \in 1..Len(call.existing_apps)
                    /\ SameCompanyAndRole(call.result)
                    /\ SameCompanyKey(call.result)
                    /\ \A j \in 1..(call.result - 1) : ~SameCompanyAndRole(j)

\* two applications of the list match, the first on the token overlap alone,
\* and the first is returned
C30_Witness ==
    /\ call.op = "find_matching_application"
    /\ call.company = "google inc"
    /\ call.role = "Data Platform Infrastructure Engineer"
    /\ call.existing_apps =
          << [company |-> "Google", role |-> "Data Platform Infrastructure"],
             [company |-> "Google", role |-> "Data Platform Infrastructure Engineer"] >>
    /\ call.result = 1

(***************************************************************************)
(* run_sync on stores that earlier runs have filled: two applications are  *)
(* tracked, their emails (older than the mailbox of the model) are         *)
(* skip-forever, and the daily counter is the one of a new day.  Database  *)
(* mode keeps them in the database, sheet mode in the spreadsheet.  One    *)
(* run is explored: the last of MaxRuns.                                   *)
(***************************************************************************)
TrackedBefore ==
    << [id |-> 1, company |-> "Google", role |-> "Software Engineer Intern",
        stage |-> "Applied", type |-> "Internship", date_applied |-> "2024-02-01",
        last_updated |-> 0, notes |-> "Applied online"],
       [id |-> 2, company |-> "Stripe", role |-> "Data Platform Infrastructure Engineer",
        stage |-> "Phone Screen", type |-> "Full-time", date_applied |-> "2024-02-02",
        last_updated |-> 0, notes |-> ""] >>

ProcessedBefore == {NumEmails + 1, NumEmails + 2}

InitTracked ==
    /\ use_sheet_mode \in BOOLEAN
    /\ applications = IF use_sheet_mode THEN <<>> ELSE TrackedBefore
    /\ next_id = IF use_sheet_mode THEN 1 ELSE Len(TrackedBefore) + 1
    /\ processed_emails =
          IF use_sheet_mode THEN {}
          ELSE {[email_id |-> id, ai_attempted |-> 1, pre_filter_rejected |-> 0] :
                   id \in ProcessedBefore}
    /\ call_count = GEMINI_DAILY_QUOTA_LIMIT - QuotaSlack
    /\ sheet_apps = write_applications(get_all_applications(TrackedBefore))
    /\ sheet_processed = IF use_sheet_mode THEN ProcessedBefore ELSE {}
    /\ clock = 0
    /\ runs = MaxRuns - 1
    /\ pc = "idle"
    /\ skip_forever_ids = {}
    /\ to_process = <<>>
    /\ idx = 0
    /\ existing_apps = <<>>
    /\ newly_processed_ids = <<>>
    /\ ev = NoEvent
    /\ run_log = NoRun
    /\ call = NoCall

SpecTracked == InitTracked /\ [][Next]_vars

(***************************************************************************)
(* Frame of a merge into a matched application, under SpecTracked          *)
(***************************************************************************)
\* C31: a merge into a matched application leaves the number and the order
\* of the tracked applications as they were, leaves the company, role, type
\* and date_applied of the matched application as they were (only its
\* stage, notes and last_updated may differ), and leaves every other
\* tracked application as it was
C31_MergeFrame ==
    [][ev'.kind = "update"
          => /\ Len(Tracked') = Len(Tracked)
             /\ \E m \in 1..Len(Tracked) : Tracked[m] = ev'.matched
             /\ \A i \in 1..Len(Tracked) :
                   IF Tracked[i] = ev'.matched
                   THEN /\ Tracked'[i].id = Tracked[i].id
                        /\ Tracked'[i].company = Tracked[i].company
                        /\ Tracked'[i].role = Tracked[i].role
                        /\ Tracked'[i].type = Tracked[i].type
                        /\ Tracked'[i].date_applied = Tracked[i].date_applied
                   ELSE Tracked'[i] = Tracked[i]]_vars

C31_Witness ==
    /\ ev.kind = "update"
    /\ ev.upgraded
    /\ Len(Tracked) = 2
    /\ \E a \in WrittenApps :
          /\ a.stage = ev.stage
          /\ a.stage # ev.matched.stage
          /\ a.date_applied = "2024-02-01"
    /\ \E a \in SeqToSet(Tracked) \ WrittenApps : a.company = "Stripe"

(***************************************************************************)
(* Tracked applications across one run, under SpecTracked                  *)
(***************************************************************************)
\* the application app (by company, role and date_applied) is among apps
StillIn(app, apps) ==
    \E j \in 1..Len(apps) :
        /\ apps[j].company = app.company
        /\ apps[j].role = app.role
        /\ apps[j].date_applied = app.date_applied

\* C32: when a run has ended, in either mode, every application that was in
\* the persisted application store when the run started is still in it
C32_NeverDeleted ==
    run_log.done
        => \A i \in 1..Len(run_log.start_apps) : StillIn(run_log.start_apps[i], Stored)

\* C32 for the runs whose reads of the store returned
C32_NeverDeletedWhenReadsReturn ==
    (run_log.done /\ run_log.reads_ok)
        => \A i \in 1..Len(run_log.start_apps) : StillIn(run_log.start_apps[i], Stored)

(***************************************************************************)
(* Terminal stages of tracked applications, under Spec                     *)
(***************************************************************************)
\* C33: a merge leaves every tracked application whose stage is Rejected or
\* Withdrawn with a stage that is Rejected or Withdrawn, whatever the
\* incoming stage is; and no other step of a run gives a tracked application
\* (by company, role and date_applied) that was Rejected or Withdrawn
\* another stage
C33_TerminalAbsorbing ==
    [][/\ ev'.kind = "update"
          => /\ Len(Tracked') = Len(Tracked)
             /\ \A i \in 1..Len(Tracked) :
                   Tracked[i].stage \in TerminalStages
                      => Tracked'[i].stage \in TerminalStages
       /\ \A i \in 1..Len(Tracked), j \in 1..Len(Tracked') :
             (/\ Tracked[i].stage \in TerminalStages
              /\ Tracked'[j].company = Tracked[i].company
              /\ Tracked'[j].role = Tracked[i].role
              /\ Tracked'[j].date_applied = Tracked[i].date_applied)
                => Tracked'[j].stage \in TerminalStages]_vars

C33_Witness ==
    /\ ev.kind = "update"
    /\ ev.matched.stage = "Rejected"
    /\ ev.stage = "Offer"
    /\ ~ev.upgraded
    /\ \E a \in WrittenApps : a.stage = "Rejected"

(***************************************************************************)
(* deduplication.normalize_company, role_token_overlap,                    *)
(* normalize_role_for_match and find_matching_application called directly. *)
(* normalize_company is called on an input and then on its own result.     *)
(***************************************************************************)
CompanyInputs ==
    {"", "   ", "Google", "google inc", "Google Inc.", "  Stripe,   Inc. ",
     "ACME CORP", "Acme Corporation", "acme l.l.c.", "Acme Co. Ltd", "Acme LLP LP",
     "Meta Platforms Inc", "alphabet", "Amazon.com Services LLC", "J.P. Morgan",
     "Goldman Sachs & Co", "International Business Machines Corporation", "AWS",
     "o'reilly media limited", "Incorporated", "Coinbase", "Acme L Co.LC",
     "Acme In Corp.c", "3m company plc"}

OverlapRoles ==
    {"", "   ", "Intern", "Senior Staff", "Software Engineer", "Software Developer",
     "Senior Software Engineer II", "Data Analyst", "Data Analyst Intern",
     "Product Manager"}

\* ROLE_EQUIVALENTS[g][v] for every group g and member v
GroupMembers ==
    {gv \in (1..Len(ROLE_EQUIVALENTS)) \X (1..4) : gv[2] <= Len(ROLE_EQUIVALENTS[gv[1]])}

\* the role strings normalize_role_for_match is called on: the members of
\* the groups as the table spells them, and two as an email spells them
GroupRoles ==
    {ROLE_EQUIVALENTS[gv[1]][gv[2]] : gv \in GroupMembers}
    \cup {"Product Manager Intern", "Product Management Intern"}

\* the groups that have the role string (lower-cased) as a member
GroupsOf(role) ==
    {g \in 1..Len(ROLE_EQUIVALENTS) :
        \E v \in 1..Len(ROLE_EQUIVALENTS[g]) : ROLE_EQUIVALENTS[g][v] = lower(role)}

CallNormalizeCompany(raw) ==
    /\ \/ call = NoCall /\ raw \in CompanyInputs
       \/ call.op = "normalize_company" /\ ~call.again /\ raw = call.result
    /\ call' = [op |-> "normalize_company", raw |-> raw, result |-> normalize_company(raw),
                again |-> call # NoCall]
    /\ UNCHANGED runVars

CallRoleTokenOverlap(a, b) ==
    /\ call = NoCall
    /\ call' = [op |-> "role_token_overlap", a |-> a, b |-> b,
                tokens_a |-> SeqToSet(split(normalize_role_for_match(a))),
                tokens_b |-> SeqToSet(split(normalize_role_for_match(b))),
                result |-> role_token_overlap(a, b)]
    /\ UNCHANGED runVars

CallNormalizeRoleForMatch(raw) ==
    /\ call = NoCall
    /\ call' = [op |-> "normalize_role_for_match", raw |-> raw,
                result |-> normalize_role_for_match(raw)]
    /\ UNCHANGED runVars

NextDedup ==
    \/ \E raw \in CompanyInputs
                    \cup (IF call.op = "normalize_company" THEN {call.result} ELSE {}) :
          CallNormalizeCompany(raw)
    \/ \E a \in OverlapRoles, b \in OverlapRoles : CallRoleTokenOverlap(a, b)
    \/ \E raw \in GroupRoles : CallNormalizeRoleForMatch(raw)
    \/ \E role \in GroupRoles, app_role \in GroupRoles :
          CallFindMatchingApplication("Google", role,
                                      <<[company |-> "Google", role |-> app_role]>>)

SpecDedup == InitCalls /\ [][NextDedup]_vars

(***************************************************************************)
(* Properties of the deduplication functions, under SpecDedup              *)
(***************************************************************************)
\* C34: normalize_company called on a result of normalize_company returns
\* that result
C34_NormalizeCompanyIdempotent ==
    (call.op = "normalize_company" /\ call.again) => call.result = call.raw

\* a: the role string keeps no token when its noise words are removed
OnlyNoise(role) ==
    SelectSeq(split(strip(lower(role))), LAMBDA w : w \notin ROLE_NOISE) = <<>>

\* C35: role_token_overlap(a, b) is 0.0 when a or b is empty or has noise
\* words only, whatever the other argument is, and role_token_overlap(a, a)
\* is 1.0 for every a that keeps a token
C35_RoleTokenOverlapEnds ==
    call.op = "role_token_overlap"
        => /\ (OnlyNoise(call.a) \/ OnlyNoise(call.b)) => call.result = <<0, 1>>
           /\ (call.a = call.b /\ ~OnlyNoise(call.a))
                 => call.result[1] = call.result[2] /\ call.result[2] > 0

\* C35 without its first half: role_token_overlap(a, a) is 1.0 for every a
\* that keeps a token
C35_SelfOverlapIsOne ==
    (call.op = "role_token_overlap" /\ call.a = call.b /\ ~OnlyNoise(call.a))
        => call.result[1] = call.result[2] /\ call.result[2] > 0

\* C37: normalize_role_for_match gives every member of a ROLE_EQUIVALENTS
\* group the key of the group's canonical member, and
\* find_matching_application matches a record whose role is a member of a
\* group with the tracked application of the same company whose role is a
\* member of the same group
C37_EquivalentsFoldToOneKey ==
    /\ call.op = "normalize_role_for_match"
          => \A g \in GroupsOf(call.raw) :
                call.result = normalize_role_for_match(ROLE_EQUIVALENTS[g][1])
    /\ (call.op = "find_matching_application"
          /\ GroupsOf(call.role) \cap GroupsOf(call.existing_apps[1].role) # {})
          => call.result = 1

(***************************************************************************)
(* The two store modes of run_sync, under Spec.  What a step of the loop   *)
(* does to the tracked applications and to the disposition of its email is *)
(* written once, from the email, the counter and the classifier outcome    *)
(* (ev), as database mode does it; two runs whose steps all follow it end  *)
(* with the same applications and dispositions.                            *)
(***************************************************************************)
DispositionOf(id) ==
    IF id \in RecordedSkipForever THEN "skip-forever"
    ELSE IF id \in RecordedRetry THEN "retry-pending"
    ELSE "unseen"

\* DispositionOf(id) in the state a step leads to
DispositionAfter(id) ==
    IF id \in RecordedSkipForever' THEN "skip-forever"
    ELSE IF id \in RecordedRetry' THEN "retry-pending"
    ELSE "unseen"

TrackedSet == {<<a.company, a.role, a.stage, a.notes>> : a \in SeqToSet(Tracked)}

LoopKinds == {"quota_stop", "pre_filter", "quota", "rate_limit_fail", "error",
              "null", "insert", "update"}

\* the step described by ev' handled its email as database mode does
StepAsDatabaseMode ==
    /\ call_count >= GEMINI_DAILY_QUOTA_LIMIT => ev'.kind = "quota_stop"
    /\ DispositionAfter(ev'.email) =
          IF ev'.kind \in {"pre_filter", "null", "insert", "update"} THEN "skip-forever"
          ELSE IF ev'.kind \in {"rate_limit_fail", "error"} THEN "retry-pending"
          ELSE DispositionOf(ev'.email)
    /\ \A id \in EmailIds \ {ev'.email} : DispositionAfter(id) = DispositionOf(id)
    /\ TrackedSet' =
          IF ev'.kind = "insert"
          THEN TrackedSet \cup {<<ev'.company, ev'.role, ev'.stage, ev'.notes>>}
          ELSE IF ev'.kind = "update"
          THEN (TrackedSet \ {<<ev'.matched.company, ev'.matched.role,
                                ev'.matched.stage, ev'.matched.notes>>})
               \cup {<<ev'.matched.company, ev'.matched.role,
                       MergedStage(ev'.matched.stage, ev'.stage),
                       MergedNotes(ev'.matched.stage, ev'.stage,
                                   ev'.matched.notes, ev'.notes)>>}
          ELSE TrackedSet
    /\ pc' = "finish" <=> ev'.kind \in {"quota", "quota_stop"}

\* C36: in database mode and in sheet mode alike, every step of the loop
\* leaves the tracked applications (company, role, stage, notes) and the
\* disposition of every email as the same function of the email, the
\* counter and the classifier outcome gives them
C36_StoreModeEquivalence ==
    [][ev'.kind \in LoopKinds => StepAsDatabaseMode]_vars

\* the steps of database mode follow StepAsDatabaseMode
C36_DatabaseModeIsTheReference ==
    [][(ev'.kind \in LoopKinds /\ ~use_sheet_mode) => StepAsDatabaseMode]_vars

\* C36 for the steps of sheet mode that neither handle a provider failure
\* nor come after the daily limit is reached
C36_SheetModeOtherwiseEquivalent ==
    [][(/\ ev'.kind \in LoopKinds \ {"rate_limit_fail", "error"}
        /\ call_count < GEMINI_DAILY_QUOTA_LIMIT) => StepAsDatabaseMode]_vars

(***************************************************************************)
(* The daily counter and the requests of one invocation, under SpecParse   *)
(***************************************************************************)
\* C38: starting from a daily counter that is not above
\* GEMINI_DAILY_QUOTA_LIMIT, the counter is never above it, during and
\* after any sequence of parse_email_with_ai invocations
C38_QuotaBound == call_count <= GEMINI_DAILY_QUOTA_LIMIT

\* the first request of an invocation took the counter to the limit and its
\* text called for a re-ask, which the counter check refused
C38_Witness ==
    /\ call.op = ParseOp
    /\ call.at = "returned"
    /\ call.status = "quota"
    /\ call.count_before = GEMINI_DAILY_QUOTA_LIMIT - 1
    /\ call_count = GEMINI_DAILY_QUOTA_LIMIT
    /\ Len(call.answers) = 1
    /\ call.answers[1].kind = "text_malformed"

(***************************************************************************)
(* The stage of one tracked application over a series of merges: lines     *)
(* 151-158 of run_sync applied to the stored stage and, one after the      *)
(* other, the stages of the records that match the application             *)
(***************************************************************************)
\* number of records merged into the application
MaxMerges == 3

InitMerges ==
    /\ InitRun
    /\ ~use_sheet_mode
    /\ call \in {[op |-> "merge", initial |-> s, stage |-> s, incoming |-> <<>>] :
                    s \in StageSet}

MergeIncomingStage(stage) ==
    /\ call.op = "merge"
    /\ Len(call.incoming) < MaxMerges
    /\ call' = [call EXCEPT !.stage = MergedStage(call.stage, stage),
                            !.incoming = Append(@, stage)]
    /\ UNCHANGED runVars

NextMerges == \E stage \in StageInputs : MergeIncomingStage(stage)

SpecMerges == InitMerges /\ [][NextMerges]_vars

\* the stage of highest STAGE_PRIORITY in a set of stages
MaxPriorityStage(S) ==
    CHOOSE s \in S : \A t \in S : STAGE_PRIORITY(t) <= STAGE_PRIORITY(s)

\* C39: when the application starts at a non-terminal stage and every
\* merged stage is non-terminal, the stored stage is the stage of highest
\* priority among the initial and the merged stages, so it is the same for
\* every order of the merged stages
C39_OrderIndependence ==
    (/\ call.op = "merge"
     /\ call.initial \in NonTerminalStages
     /\ SeqToSet(call.incoming) \subseteq NonTerminalStages)
        => call.stage = MaxPriorityStage({call.initial} \cup SeqToSet(call.incoming))

\* the highest stage came first and two lower stages followed
C39_Witness ==
    /\ call.op = "merge"
    /\ call.initial = "In Review"
    /\ call.incoming = <<"Offer", "Applied", "Interview Scheduled">>
    /\ call.stage = "Offer"

\* C40: one parse_email_with_ai invocation sends a request after a text
\* only when that text is not null and gave no record, and sends no request
\* after that one; so it sends at most RATE_LIMIT_MAX_RETRIES + 2 requests
\* and raises the daily counter by at most 2
C40_BoundedCallsPerEmail ==
    call.op = ParseOp
        => /\ \A i \in 1..(Len(call.answers) - 1) :
                 call.answers[i].kind \in TextKinds
                    => /\ call.answers[i].kind = "text_malformed"
                       /\ i + 1 = Len(call.answers)
           /\ Len(call.answers) <= RATE_LIMIT_MAX_RETRIES + 2
           /\ call_count >= call.count_before
           /\ call_count - call.count_before <= 2

\* three rate-limit errors, a text that is no JSON, and the re-ask
C40_Witness ==
    /\ call.op = ParseOp
    /\ call.at = "returned"
    /\ Len(call.answers) = RATE_LIMIT_MAX_RETRIES + 2
    /\ Leading429(call.answers) = RATE_LIMIT_MAX_RETRIES
    /\ call.answers[RATE_LIMIT_MAX_RETRIES + 1].kind = "text_malformed"
    /\ call.answers[RATE_LIMIT_MAX_RETRIES + 2].kind = "text_malformed"
    /\ call_count = call.count_before + 2
    /\ call.status = "success"
    /\ call.parsed = NullRecord

====
